---- MODULE Spec2Model ----
(***************************************************************************)
(* CronService (src/src/cron-service.ts): the persistent job scheduler.    *)
(*                                                                         *)
(* The service is one JavaScript object driven by a single-threaded event  *)
(* loop.  Its state is the object's fields, the store file, the platform   *)
(* timers that are still pending, and the clock.  Every serialized         *)
(* operation (runExclusive) is an entry of opQueue; the entries run in     *)
(* FIFO order, one action per handler.  The dispatcher loop                *)
(* (processRunQueue) runs outside the serializer: its position is kept in  *)
(* loops.                                                                  *)
(***************************************************************************)
EXTENDS Integers, Sequences, FiniteSets, TLC

\* ------------------------------------------------------------ bounds
MaxJobs == 2
MaxNow == 12000
MaxCalls == 4
MaxPending == 2
MaxCrashes == 1
MaxFaults == 1
maxJobsPerChat == 1       \* opts.maxJobsPerChat

\* ------------------------------------------------- program constants
MAX_TIMER_SLICE_MS == 86400000
EarlyFireMs == 1000
MinEveryMs == 1000

\* Date.now() of the first state, and the clock's step.
StartMs == 10000
TickSteps == {1000}

\* opts.enabled: the service-level switch, fixed at construction.
OptsEnabled == TRUE

JobIds == 1..MaxJobs
TimerIds == 1..(2 * MaxJobs + 2)
LoopIds == 1..2

NoJob == [kind |-> "none"]
NoTimer == [jobId |-> 0, dueAtMs |-> 0, fireAt |-> 0]
IdleLoop == [pc |-> "idle", jobId |-> 0, source |-> "none", force |-> FALSE,
             runId |-> 0, endedAt |-> 0, ok |-> FALSE]

Max(a, b) == IF a >= b THEN a ELSE b
Min(a, b) == IF a <= b THEN a ELSE b

RECURSIVE Pow2(_)
Pow2(n) == IF n <= 0 THEN 1 ELSE 2 * Pow2(n - 1)

\* The smallest positive integer not in S.
RECURSIVE FreshFrom(_, _)
FreshFrom(n, S) == IF n \in S THEN FreshFrom(n + 1, S) ELSE n

\* ------------------------------------------------------ pure helpers

\* computeEveryNextAt that returns the reference time itself when it is a
\* point of the cadence.
computeEveryNextAtInclusive(anchorMs, everyMs, t) ==
    LET anchor == Max(1, anchorMs)
        interval == Max(MinEveryMs, everyMs)
    IN IF t < anchor THEN anchor
       ELSE anchor + (((t - anchor) + interval - 1) \div interval) * interval

\* computeEveryNextAt(anchorMs, everyMs, now)
computeEveryNextAt(anchorMs, everyMs, t) ==
    LET anchor == Max(1, anchorMs)
        interval == Max(MinEveryMs, everyMs)
    IN IF t < anchor THEN anchor
       ELSE anchor + (((t - anchor) \div interval) + 1) * interval

\* initialNextRun(schedule, now)
initialNextRun(schedule, t) ==
    CASE schedule.kind = "at" -> schedule.atMs
      [] schedule.kind = "every" ->
             computeEveryNextAt(schedule.anchorMs, schedule.everyMs, t)
      [] OTHER -> 0

\* Cron.nextRun() of the cron evaluator: the next instant of the expression
\* strictly after the reference time.  Every valid expression of the model
\* fires at the multiples of CronPeriodMs.
CronPeriodMs == 2000
CronNextRun(t) == ((t \div CronPeriodMs) + 1) * CronPeriodMs

\* ------------------------------------------------------- create inputs

DefaultPolicy == [maxLatenessMs |-> 1000, retryMax |-> 2,
                  retryBackoffMs |-> 1000, deleteAfterRun |-> FALSE]

\* A policy that allows no lateness, never retries and deletes the job after
\* a successful run.
OneShotPolicy == [maxLatenessMs |-> 0, retryMax |-> 0,
                  retryBackoffMs |-> 1000, deleteAfterRun |-> TRUE]

Policies == {DefaultPolicy, OneShotPolicy}

AtSchedule(atMs) ==
    [kind |-> "at", atMs |-> atMs, everyMs |-> 0, anchorMs |-> 0, exprOk |-> TRUE]

EverySchedule(everyMs, anchorMs) ==
    [kind |-> "every", atMs |-> 0, everyMs |-> everyMs, anchorMs |-> anchorMs,
     exprOk |-> TRUE]

CronSchedule(exprOk) ==
    [kind |-> "cron", atMs |-> 0, everyMs |-> 0, anchorMs |-> 0, exprOk |-> exprOk]

\* The inputs create is called with: for a first chat a one-shot job in the
\* near future with each policy, an interval job anchored at the start
\* instant, a cron job with a valid and with an invalid expression; for a
\* second chat a one-shot job.
CreateInputs ==
    { [chatId |-> 1, schedule |-> AtSchedule(StartMs + 1000), policy |-> p,
       enabled |-> TRUE] : p \in Policies }
    \cup { [chatId |-> 1, schedule |-> EverySchedule(2000, StartMs),
            policy |-> DefaultPolicy, enabled |-> TRUE] }
    \cup { [chatId |-> 1, schedule |-> CronSchedule(ok), policy |-> DefaultPolicy,
            enabled |-> TRUE] : ok \in BOOLEAN }
    \cup { [chatId |-> 2, schedule |-> AtSchedule(StartMs + 1000),
            policy |-> DefaultPolicy, enabled |-> TRUE] }

\* The target of a job that waits more than two timer slices.
FarMs == StartMs + 2 * MAX_TIMER_SLICE_MS + 2000

\* The inputs of create for jobs that wait on timers: for one chat a
\* one-shot job due in a second, for another a one-shot job due more than
\* two timer slices ahead.
TimedInputs ==
    { [chatId |-> 1, schedule |-> AtSchedule(StartMs + 1000),
       policy |-> DefaultPolicy, enabled |-> TRUE],
      [chatId |-> 2, schedule |-> AtSchedule(FarMs),
       policy |-> DefaultPolicy, enabled |-> TRUE] }

\* Number(input.chatId): its value, and whether it is a safe integer.
ChatIdOf(n) == [safeInteger |-> TRUE, value |-> n]
ChatIdNaN == [safeInteger |-> FALSE, value |-> 0]

\* Inputs as callers hand them to create, well-formed or not: a prompt that
\* is empty or blank, a chat id that is no number, an atMs of 0 and below, an
\* everyMs below, at and above the limit, an anchorMs of 0 and below, a cron
\* expression that is empty or blank, a schedule of an unknown kind.
RawCreateInputs ==
    { [prompt |-> p, chatId |-> ChatIdOf(1),
       schedule |-> [kind |-> "at", atMs |-> StartMs + 1000, everyMs |-> 0,
                     anchorMs |-> 0, expr |-> ""]] : p \in {"", "  ", "ping"} }
    \cup { [prompt |-> "ping", chatId |-> ChatIdNaN,
            schedule |-> [kind |-> "at", atMs |-> StartMs + 1000, everyMs |-> 0,
                          anchorMs |-> 0, expr |-> ""]] }
    \cup { [prompt |-> "ping", chatId |-> ChatIdOf(1),
            schedule |-> [kind |-> "at", atMs |-> a, everyMs |-> 0,
                          anchorMs |-> 0, expr |-> ""]] : a \in {0 - 1, 0} }
    \cup { [prompt |-> "ping", chatId |-> ChatIdOf(1),
            schedule |-> [kind |-> "every", atMs |-> 0, everyMs |-> e,
                          anchorMs |-> StartMs, expr |-> ""]] : e \in {999, 1000} }
    \cup { [prompt |-> "ping", chatId |-> ChatIdOf(1),
            schedule |-> [kind |-> "every", atMs |-> 0, everyMs |-> 2000,
                          anchorMs |-> a, expr |-> ""]] : a \in {0 - 1, 0} }
    \cup { [prompt |-> "ping", chatId |-> ChatIdOf(1),
            schedule |-> [kind |-> "cron", atMs |-> 0, everyMs |-> 0,
                          anchorMs |-> 0, expr |-> x]] : x \in {"", "  ", "* * * * *"} }
    \cup { [prompt |-> "ping", chatId |-> ChatIdOf(1),
            schedule |-> [kind |-> "weekly", atMs |-> 0, everyMs |-> 0,
                          anchorMs |-> 0, expr |-> ""]] }

VARIABLES
    now,            \* Date.now()
    jobs,           \* this.jobs: id -> record, NoJob when absent
    store,          \* the jobs of the store file (NoJob when absent)
    timerHandles,   \* this.timerHandles: id -> timer, 0 when absent
    timers,         \* the platform's pending timers (setTimeout, not yet fired or cleared)
    cronHandles,    \* this.cronHandles: 0 absent, 1 live, 2 live with a tick due now
    runQueue,       \* this.runQueue
    queuedJobIds,   \* this.queuedJobIds
    started,        \* this.started
    stopping,       \* this.stopping
    processingQueue,\* this.processingQueue
    activeRuns,     \* this.activeRuns
    opQueue,        \* the tasks chained on this.opQueue that have not run yet
    loops,          \* the invocations of processRunQueue and where each stands
    calls,          \* API calls made so far
    crashes,        \* process exits so far
    faults,         \* failed store writes so far
    batchRuns       \* history: per job, the executor invocations since the job
                    \* last had neither a queued request nor a dispatch under way

vars == <<now, jobs, store, timerHandles, timers, cronHandles, runQueue,
          queuedJobIds, started, stopping, processingQueue, activeRuns,
          opQueue, loops, calls, crashes, faults, batchRuns>>

\* The state the handlers read and write, as one record.
Cur ==
    [now |-> now, jobs |-> jobs, store |-> store, timerHandles |-> timerHandles,
     timers |-> timers, cronHandles |-> cronHandles, runQueue |-> runQueue,
     queuedJobIds |-> queuedJobIds, started |-> started, stopping |-> stopping,
     processingQueue |-> processingQueue, activeRuns |-> activeRuns,
     opQueue |-> opQueue, loops |-> loops]

\* Whether the run queue of s holds a request for job j.
Queued(s, j) == \E i \in 1..Len(s.runQueue) : s.runQueue[i].jobId = j

\* Whether the step from the current state to s has called the executor for j.
Invoked(s, j) ==
    \E l \in LoopIds : /\ loops[l].pc = "kick" /\ loops[l].jobId = j
                       /\ s.loops[l].pc = "exec"

\* Whether, in the current state, job j has a request that is queued or in
\* a dispatch whose run does not finish in the step to s.
Outstanding(s, j) ==
    \/ Queued(Cur, j)
    \/ \E l \in LoopIds : /\ loops[l].jobId = j
                          /\ \/ loops[l].pc \in {"kick", "exec"}
                             \/ loops[l].pc = "final" /\ s.loops[l].pc = "final"

Commit(s) ==
    /\ batchRuns' = [j \in JobIds |->
                        (IF Outstanding(s, j) THEN batchRuns[j] ELSE 0)
                        + (IF Invoked(s, j) THEN 1 ELSE 0)]
    /\ jobs' = s.jobs
    /\ store' = s.store
    /\ timerHandles' = s.timerHandles
    /\ timers' = s.timers
    /\ cronHandles' = s.cronHandles
    /\ runQueue' = s.runQueue
    /\ queuedJobIds' = s.queuedJobIds
    /\ started' = s.started
    /\ stopping' = s.stopping
    /\ processingQueue' = s.processingQueue
    /\ activeRuns' = s.activeRuns
    /\ opQueue' = s.opQueue
    /\ loops' = s.loops

Has(s, id) == id \in JobIds /\ s.jobs[id] # NoJob

\* A task handed to runExclusive.
Op(type, jobId, arg) == [type |-> type, jobId |-> jobId, arg |-> arg]

\* runExclusive(fn): chain the task behind the ones already submitted.
runExclusive(s, op) == [s EXCEPT !.opQueue = Append(@, op)]

\* ------------------------------------------------------------ persist

\* persistUnsafe(): the snapshot is the job map at the call; the write
\* either replaces the store file or fails and leaves it as it was.
persistUnsafe(s, fails) == IF fails THEN s ELSE [s EXCEPT !.store = s.jobs]

\* ------------------------------------------------------------- timers

FreeTimers(s) ==
    { t \in TimerIds : s.timers[t] = NoTimer /\ \A j \in JobIds : s.timerHandles[j] # t }

\* clearTimeout(t)
clearTimeout(s, t) == [s EXCEPT !.timers[t] = NoTimer]

\* unscheduleJobUnsafe(jobId)
unscheduleJobUnsafe(s, jobId) ==
    LET t == s.timerHandles[jobId]
        s1 == IF t # 0
              THEN [clearTimeout(s, t) EXCEPT !.timerHandles[jobId] = 0]
              ELSE s
    IN [s1 EXCEPT !.cronHandles[jobId] = 0]

\* clearAllSchedulesUnsafe(): every timer and cron handle of the tables.
clearAllSchedulesUnsafe(s) ==
    [s EXCEPT !.timers = [t \in TimerIds |->
                             IF \E j \in JobIds : s.timerHandles[j] = t
                             THEN NoTimer ELSE s.timers[t]],
              !.timerHandles = [j \in JobIds |-> 0],
              !.cronHandles = [j \in JobIds |-> 0]]

\* armTimerUnsafe(jobId, dueAtMs): setTimeout for at most one slice, and the
\* handle recorded over whatever the table held.
armTimerUnsafe(s, jobId, dueAtMs) ==
    LET delay == Max(0, Min(dueAtMs - s.now, MAX_TIMER_SLICE_MS))
        t == CHOOSE x \in FreeTimers(s) : \A y \in FreeTimers(s) : x <= y
    IN [s EXCEPT !.timers[t] = [jobId |-> jobId, dueAtMs |-> dueAtMs,
                                fireAt |-> s.now + delay],
                 !.timerHandles[jobId] = t]

\* ---------------------------------------------------------- run queue

FreeLoops(s) == { l \in LoopIds : s.loops[l].pc = "idle" }

\* executeRun(req), up to its first await: the start step is handed to the
\* serializer.
executeRunCall(s, l, req) ==
    runExclusive([s EXCEPT !.loops[l] = [IdleLoop EXCEPT !.pc = "kick",
                                            !.jobId = req.jobId,
                                            !.source = req.source,
                                            !.force = req.force]],
                 Op("kick", req.jobId, l))

\* One turn of the while loop of processRunQueue, run by invocation l: leave
\* when the queue is empty or the service is stopping, else take the head
\* request and call executeRun.
processLoop(s, l) ==
    IF Len(s.runQueue) = 0 \/ s.stopping
    THEN [s EXCEPT !.processingQueue = FALSE, !.loops[l] = IdleLoop]
    ELSE LET req == Head(s.runQueue)
         IN executeRunCall([s EXCEPT !.runQueue = Tail(@),
                                     !.queuedJobIds = @ \ {req.jobId}], l, req)

\* processRunQueue(), up to its first await.
processRunQueue(s) ==
    IF s.processingQueue THEN s
    ELSE LET l == CHOOSE x \in FreeLoops(s) : \A y \in FreeLoops(s) : x <= y
         IN processLoop([s EXCEPT !.processingQueue = TRUE], l)

\* enqueueRunUnsafe(req)
enqueueRunUnsafe(s, req) ==
    IF ~Has(s, req.jobId) THEN s
    ELSE IF req.jobId \in s.queuedJobIds THEN s
    ELSE IF s.jobs[req.jobId].state.runningRunId # 0 THEN s
    ELSE processRunQueue([s EXCEPT !.runQueue = Append(@, req),
                                   !.queuedJobIds = @ \cup {req.jobId}])

Req(jobId, source, force) == [jobId |-> jobId, source |-> source, force |-> force]

\* What remains of processRunQueue invocation l once the executeRun it
\* awaited has settled: the next turn of the loop, or, when executeRun
\* threw, the finally block alone.
resumeLoop(s, l) ==
    CASE s.loops[l].pc = "resume" -> processLoop(s, l)
      [] s.loops[l].pc = "die" ->
             [s EXCEPT !.processingQueue = FALSE, !.loops[l] = IdleLoop]
      [] OTHER -> s

RECURSIVE resumeFrom(_, _)
resumeFrom(s, l) ==
    IF l \notin LoopIds THEN s ELSE resumeFrom(resumeLoop(s, l), l + 1)

\* Every continuation of processRunQueue that is due.
resumeLoops(s) == resumeFrom(s, 1)

\* --------------------------------------------------------- scheduling

\* computeDueAtUnsafe without the lateness window of an At job.
computeDueAtNoLateness(job, t, startup) ==
    IF job.schedule.kind = "at"
    THEN LET target == IF job.state.nextRunAtMs > 0 THEN job.state.nextRunAtMs
                       ELSE job.schedule.atMs
         IN IF target > t THEN [job |-> job, dueAt |-> target]
            ELSE [job |-> job, dueAt |-> t]
    ELSE IF job.schedule.kind = "every"
    THEN LET next == IF job.state.nextRunAtMs > 0 THEN job.state.nextRunAtMs
                     ELSE computeEveryNextAt(job.schedule.anchorMs,
                                             job.schedule.everyMs, t)
         IN IF next <= t THEN [job |-> job, dueAt |-> IF startup THEN t ELSE next]
            ELSE [job |-> job, dueAt |-> next]
    ELSE [job |-> job, dueAt |-> 0]

\* computeDueAtUnsafe(job, now, startup): the job as it leaves it, and the
\* instant it returns.
computeDueAtUnsafe(job, t, startup) ==
    IF job.schedule.kind = "at"
    THEN LET target == IF job.state.nextRunAtMs > 0 THEN job.state.nextRunAtMs
                       ELSE job.schedule.atMs
         IN IF target > t THEN [job |-> job, dueAt |-> target]
            ELSE IF t - target > job.policy.maxLatenessMs
            THEN [job |-> [job EXCEPT !.enabled = FALSE,
                                      !.state.lastStatus = "missed"],
                  dueAt |-> 0]
            ELSE [job |-> job, dueAt |-> t]
    ELSE IF job.schedule.kind = "every"
    THEN LET next == IF job.state.nextRunAtMs > 0 THEN job.state.nextRunAtMs
                     ELSE computeEveryNextAt(job.schedule.anchorMs,
                                             job.schedule.everyMs, t)
         IN IF next <= t THEN [job |-> job, dueAt |-> IF startup THEN t ELSE next]
            ELSE [job |-> job, dueAt |-> next]
    ELSE [job |-> job, dueAt |-> 0]

\* scheduleJobUnsafe with a catch block that leaves the job as it is.
scheduleJobIgnoresBadCron(s, jobId, startup) ==
    LET s1 == unscheduleJobUnsafe(s, jobId)
        job == s1.jobs[jobId]
    IN IF (~s1.started /\ ~startup) \/ s1.stopping \/ ~OptsEnabled \/ ~job.enabled
       THEN s1
       ELSE IF job.schedule.kind = "cron"
       THEN IF job.schedule.exprOk
            THEN [s1 EXCEPT !.cronHandles[jobId] = 1,
                            !.jobs[jobId].state.nextRunAtMs = CronNextRun(s1.now)]
            ELSE s1
       ELSE LET due == computeDueAtUnsafe(job, s1.now, startup)
                s2 == [s1 EXCEPT !.jobs[jobId] =
                                    [due.job EXCEPT !.state.nextRunAtMs = due.dueAt]]
            IN IF due.dueAt <= 0 THEN s2
               ELSE IF due.dueAt <= s2.now
               THEN enqueueRunUnsafe(s2, Req(jobId,
                        IF startup THEN "startup-catchup" ELSE "timer", FALSE))
               ELSE armTimerUnsafe(s2, jobId, due.dueAt)

\* scheduleJobUnsafe(job, startup)
scheduleJobUnsafe(s, jobId, startup) ==
    LET s1 == unscheduleJobUnsafe(s, jobId)
        job == s1.jobs[jobId]
    IN IF (~s1.started /\ ~startup) \/ s1.stopping \/ ~OptsEnabled \/ ~job.enabled
       THEN s1
       ELSE IF job.schedule.kind = "cron"
       THEN IF job.schedule.exprOk
            THEN [s1 EXCEPT !.cronHandles[jobId] = 1,
                            !.jobs[jobId].state.nextRunAtMs = CronNextRun(s1.now)]
            ELSE [s1 EXCEPT !.jobs[jobId].enabled = FALSE,
                            !.jobs[jobId].state.lastStatus = "error",
                            !.jobs[jobId].state.nextRunAtMs = 0]
       ELSE LET due == computeDueAtUnsafe(job, s1.now, startup)
                s2 == [s1 EXCEPT !.jobs[jobId] =
                                    [due.job EXCEPT !.state.nextRunAtMs = due.dueAt]]
            IN IF due.dueAt <= 0 THEN s2
               ELSE IF due.dueAt <= s2.now
               THEN enqueueRunUnsafe(s2, Req(jobId,
                        IF startup THEN "startup-catchup" ELSE "timer", FALSE))
               ELSE armTimerUnsafe(s2, jobId, due.dueAt)


\* ----------------------------------------------------------- handlers

\* normalizeJobName(nameInput, prompt, id) for a name that is short and has no
\* blanks to collapse: the name itself, or the name derived from the prompt
\* when none is given.
normalizeJobName(nameInput) == IF nameInput = "" THEN "derived" ELSE nameInput

\* The names rename is called with.
RenameInputs == {"renamed"}

\* The ids a new job must differ from: randomUUID never repeats an id that
\* is still known anywhere.  New ids grow, so that the order of the ids is
\* the insertion order of the job map.
KnownJobIds(s) ==
    { j \in JobIds : \/ s.jobs[j] # NoJob
                     \/ s.store[j] # NoJob
                     \/ \E i \in 1..Len(s.opQueue) : s.opQueue[i].jobId = j
                     \/ \E i \in 1..Len(s.runQueue) : s.runQueue[i].jobId = j
                     \/ \E x \in TimerIds : s.timers[x].jobId = j
                     \/ \E l \in LoopIds : s.loops[l].jobId = j }

\* generateIdUnsafe()
generateIdUnsafe(s) ==
    FreshFrom(1, { i \in JobIds : \E j \in KnownJobIds(s) : i <= j })

\* randomUUID() for a run: an id no job, stored job or dispatch holds.
NewRunId(s) ==
    FreshFrom(1, { s.jobs[j].state.runningRunId : j \in { i \in JobIds : s.jobs[i] # NoJob } }
                 \cup { s.store[j].state.runningRunId : j \in { i \in JobIds : s.store[i] # NoJob } }
                 \cup { s.loops[l].runId : l \in LoopIds })

\* The jobs of the job map that belong to a chat.
perChatCount(s, chatId) ==
    Cardinality({ j \in JobIds : Has(s, j) /\ s.jobs[j].chatId = chatId })

\* create without the quota of a chat.
createUnlimited(s, input) == FALSE

\* Whether create throws the quota error.
createOverQuota(s, input) == perChatCount(s, input.chatId) >= maxJobsPerChat

\* create(input), the task given to runExclusive.
create(s, input, fails) ==
    IF createOverQuota(s, input) THEN s ELSE
    LET id == generateIdUnsafe(s)
        job == [chatId |-> input.chatId,
                name |-> normalizeJobName(""),
                schedule |-> input.schedule,
                policy |-> input.policy,
                enabled |-> input.enabled,
                updatedAtMs |-> s.now,
                state |-> [nextRunAtMs |-> initialNextRun(input.schedule, s.now),
                           runningRunId |-> 0,
                           lastStatus |-> "none",
                           consecutiveFailures |-> 0]]
        s1 == [s EXCEPT !.jobs[id] = job]
    IN persistUnsafe(scheduleJobUnsafe(s1, id, FALSE), fails)

\* String.prototype.trim on the strings the inputs use.
Trim(str) == IF str \in {"", " ", "  "} THEN "" ELSE str

\* The expressions the cron library accepts, among those the inputs use.
CronParses(expr) == expr = "* * * * *"

\* normalizeSchedule without the lower limit of everyMs.
normalizeScheduleAnyInterval(schedule, t) ==
    IF schedule.kind = "at"
    THEN IF schedule.atMs <= 0 THEN [ok |-> FALSE, schedule |-> AtSchedule(0)]
         ELSE [ok |-> TRUE, schedule |-> AtSchedule(schedule.atMs)]
    ELSE IF schedule.kind = "every"
    THEN LET anchorMs == IF schedule.anchorMs = 0 THEN t ELSE schedule.anchorMs
         IN IF anchorMs <= 0 THEN [ok |-> FALSE, schedule |-> AtSchedule(0)]
            ELSE [ok |-> TRUE, schedule |-> EverySchedule(schedule.everyMs, anchorMs)]
    ELSE IF schedule.kind = "cron"
    THEN IF Trim(schedule.expr) = "" THEN [ok |-> FALSE, schedule |-> AtSchedule(0)]
         ELSE [ok |-> TRUE, schedule |-> CronSchedule(CronParses(Trim(schedule.expr)))]
    ELSE [ok |-> FALSE, schedule |-> AtSchedule(0)]

\* normalizeSchedule(schedule, defaultTimezone, now): whether it returns, and
\* the schedule it returns (ok = FALSE when it throws).  The numbers of the
\* inputs are integers, which Math.floor keeps.
normalizeSchedule(schedule, t) ==
    IF schedule.kind = "at"
    THEN IF schedule.atMs <= 0 THEN [ok |-> FALSE, schedule |-> AtSchedule(0)]
         ELSE [ok |-> TRUE, schedule |-> AtSchedule(schedule.atMs)]
    ELSE IF schedule.kind = "every"
    THEN LET anchorMs == IF schedule.anchorMs = 0 THEN t ELSE schedule.anchorMs
         IN IF schedule.everyMs < MinEveryMs
            THEN [ok |-> FALSE, schedule |-> AtSchedule(0)]
            ELSE IF anchorMs <= 0 THEN [ok |-> FALSE, schedule |-> AtSchedule(0)]
            ELSE [ok |-> TRUE, schedule |-> EverySchedule(schedule.everyMs, anchorMs)]
    ELSE IF schedule.kind = "cron"
    THEN IF Trim(schedule.expr) = "" THEN [ok |-> FALSE, schedule |-> AtSchedule(0)]
         ELSE [ok |-> TRUE, schedule |-> CronSchedule(CronParses(Trim(schedule.expr)))]
    ELSE [ok |-> FALSE, schedule |-> AtSchedule(0)]

\* Whether create throws on its input before it touches the job map: the
\* prompt, the chat id, the quota, the schedule.
createThrows(s, raw) ==
    \/ Trim(raw.prompt) = ""
    \/ ~raw.chatId.safeInteger
    \/ perChatCount(s, raw.chatId.value) >= maxJobsPerChat
    \/ ~normalizeSchedule(raw.schedule, s.now).ok

\* create(input) on an input as the caller hands it over: the checks, then
\* the job built from the normalized schedule and the default policy.
createChecked(s, raw, fails) ==
    IF createThrows(s, raw) THEN s
    ELSE create(s, [chatId |-> raw.chatId.value,
                    schedule |-> normalizeSchedule(raw.schedule, s.now).schedule,
                    policy |-> DefaultPolicy,
                    enabled |-> TRUE], fails)

\* removeInPlace(this.runQueue, x => x.jobId === jobId)
removeInPlace(q, jobId) == SelectSeq(q, LAMBDA x : x.jobId # jobId)

\* remove(jobId)
remove(s, jobId, fails) ==
    IF ~Has(s, jobId) THEN s
    ELSE LET s1 == unscheduleJobUnsafe(s, jobId)
         IN persistUnsafe([s1 EXCEPT !.jobs[jobId] = NoJob,
                                     !.queuedJobIds = @ \ {jobId},
                                     !.runQueue = removeInPlace(@, jobId)], fails)

\* setEnabled(jobId, enabled)
setEnabled(s, jobId, enabled, fails) ==
    IF ~Has(s, jobId) THEN s
    ELSE LET job == s.jobs[jobId]
         IN IF ~enabled
            THEN persistUnsafe(
                     unscheduleJobUnsafe(
                         [s EXCEPT !.jobs[jobId].enabled = FALSE,
                                   !.jobs[jobId].updatedAtMs = s.now,
                                   !.jobs[jobId].state.nextRunAtMs = 0], jobId),
                     fails)
            ELSE LET next ==
                         IF job.schedule.kind = "at" /\ job.state.nextRunAtMs <= 0
                         THEN job.schedule.atMs
                         ELSE IF job.schedule.kind = "every" /\ job.state.nextRunAtMs <= 0
                         THEN computeEveryNextAt(job.schedule.anchorMs,
                                                 job.schedule.everyMs, s.now)
                         ELSE job.state.nextRunAtMs
                 IN persistUnsafe(
                        scheduleJobUnsafe(
                            [s EXCEPT !.jobs[jobId].enabled = TRUE,
                                      !.jobs[jobId].updatedAtMs = s.now,
                                      !.jobs[jobId].state.nextRunAtMs = next],
                            jobId, FALSE),
                        fails)

\* rename(jobId, name)
rename(s, jobId, name, fails) ==
    IF ~Has(s, jobId) THEN s
    ELSE persistUnsafe([s EXCEPT !.jobs[jobId].name = normalizeJobName(name),
                                 !.jobs[jobId].updatedAtMs = s.now], fails)

\* runNow(jobId)
runNow(s, jobId) ==
    IF ~Has(s, jobId) THEN s
    ELSE enqueueRunUnsafe(s, Req(jobId, "manual", TRUE))

\* onTimer's task without the comparison of the target with the clock.
onTimerNoRecheck(s, jobId, dueAtMs) ==
    LET s1 == [s EXCEPT !.timerHandles[jobId] = 0]
    IN IF s1.stopping \/ ~OptsEnabled THEN s1
       ELSE IF ~Has(s1, jobId) THEN s1
       ELSE IF ~s1.jobs[jobId].enabled THEN s1
       ELSE enqueueRunUnsafe(s1, Req(jobId, "timer", FALSE))

\* onTimer(jobId, dueAtMs), the task given to runExclusive.
onTimer(s, jobId, dueAtMs) ==
    LET s1 == [s EXCEPT !.timerHandles[jobId] = 0]
    IN IF s1.stopping \/ ~OptsEnabled THEN s1
       ELSE IF ~Has(s1, jobId) THEN s1
       ELSE IF ~s1.jobs[jobId].enabled THEN s1
       ELSE IF dueAtMs - s1.now > EarlyFireMs
       THEN armTimerUnsafe(s1, jobId, dueAtMs)
       ELSE enqueueRunUnsafe(s1, Req(jobId, "timer", FALSE))

\* Whether the task of onCronTick(jobId) returns at its guards.
onCronTickSkips(s, jobId) ==
    \/ s.stopping \/ ~OptsEnabled
    \/ ~Has(s, jobId)
    \/ ~s.jobs[jobId].enabled
    \/ s.jobs[jobId].schedule.kind # "cron"

\* onCronTick(jobId) up to the await of persistUnsafe.
onCronTickHead(s, jobId, fails) ==
    IF onCronTickSkips(s, jobId) THEN s
    ELSE persistUnsafe(
             [s EXCEPT !.jobs[jobId].state.nextRunAtMs =
                          IF s.cronHandles[jobId] # 0 THEN CronNextRun(s.now) ELSE 0,
                       !.jobs[jobId].updatedAtMs = s.now],
             fails)

\* onCronTick(jobId) after the await: the enqueue, unless the write threw.
onCronTickTail(s, jobId, skipped, fails) ==
    IF skipped \/ fails THEN s
    ELSE enqueueRunUnsafe(s, Req(jobId, "cron", FALSE))

\* handleAtCompletionUnsafe without the disabling of a job whose run
\* succeeded and that is kept after its run.
handleAtCompletionKeepsEnabled(s, jobId, t, ok) ==
    LET job == s.jobs[jobId]
    IN IF ok
       THEN IF job.policy.deleteAfterRun
            THEN LET s1 == unscheduleJobUnsafe(s, jobId)
                 IN [s1 EXCEPT !.jobs[jobId] = NoJob,
                               !.queuedJobIds = @ \ {jobId},
                               !.runQueue = removeInPlace(@, jobId)]
            ELSE [s EXCEPT !.jobs[jobId].state.nextRunAtMs = 0]
       ELSE IF job.state.consecutiveFailures <= job.policy.retryMax
       THEN LET factor == Max(0, job.state.consecutiveFailures - 1)
                backoff == job.policy.retryBackoffMs * Pow2(factor)
                retryAt == t + backoff
            IN scheduleJobUnsafe(
                   [s EXCEPT !.jobs[jobId].state.nextRunAtMs = retryAt], jobId, FALSE)
       ELSE [s EXCEPT !.jobs[jobId].enabled = FALSE,
                      !.jobs[jobId].state.nextRunAtMs = 0]

\* handleAtCompletionUnsafe with a retry delay that does not double.
handleAtCompletionFlatBackoff(s, jobId, t, ok) ==
    LET job == s.jobs[jobId]
    IN IF ok
       THEN IF job.policy.deleteAfterRun
            THEN LET s1 == unscheduleJobUnsafe(s, jobId)
                 IN [s1 EXCEPT !.jobs[jobId] = NoJob,
                               !.queuedJobIds = @ \ {jobId},
                               !.runQueue = removeInPlace(@, jobId)]
            ELSE [s EXCEPT !.jobs[jobId].enabled = FALSE,
                           !.jobs[jobId].state.nextRunAtMs = 0]
       ELSE IF job.state.consecutiveFailures <= job.policy.retryMax
       THEN LET retryAt == t + job.policy.retryBackoffMs
            IN scheduleJobUnsafe(
                   [s EXCEPT !.jobs[jobId].state.nextRunAtMs = retryAt], jobId, FALSE)
       ELSE [s EXCEPT !.jobs[jobId].enabled = FALSE,
                      !.jobs[jobId].state.nextRunAtMs = 0]

\* handleAtCompletionUnsafe(job, now, ok)
handleAtCompletionUnsafe(s, jobId, t, ok) ==
    LET job == s.jobs[jobId]
    IN IF ok
       THEN IF job.policy.deleteAfterRun
            THEN LET s1 == unscheduleJobUnsafe(s, jobId)
                 IN [s1 EXCEPT !.jobs[jobId] = NoJob,
                               !.queuedJobIds = @ \ {jobId},
                               !.runQueue = removeInPlace(@, jobId)]
            ELSE [s EXCEPT !.jobs[jobId].enabled = FALSE,
                           !.jobs[jobId].state.nextRunAtMs = 0]
       ELSE IF job.state.consecutiveFailures <= job.policy.retryMax
       THEN LET factor == Max(0, job.state.consecutiveFailures - 1)
                backoff == job.policy.retryBackoffMs * Pow2(factor)
                retryAt == t + backoff
            IN scheduleJobUnsafe(
                   [s EXCEPT !.jobs[jobId].state.nextRunAtMs = retryAt], jobId, FALSE)
       ELSE [s EXCEPT !.jobs[jobId].enabled = FALSE,
                      !.jobs[jobId].state.nextRunAtMs = 0]

\* The start step of executeRun without the guard on runningRunId.
kickAbortsNoRunningGuard(s, l) ==
    LET r == s.loops[l]
    IN \/ ~Has(s, r.jobId)
       \/ ~s.jobs[r.jobId].enabled /\ ~r.force

\* Whether the start step of executeRun returns undefined.
kickAborts(s, l) ==
    LET r == s.loops[l]
    IN \/ ~Has(s, r.jobId)
       \/ ~s.jobs[r.jobId].enabled /\ ~r.force
       \/ s.jobs[r.jobId].state.runningRunId # 0

\* executeRun(req) from the start step to the call of the executor: the
\* step under the serializer, then activeRuns += 1 and runExecutor.  A
\* step that returns undefined ends executeRun; a failed write makes it
\* throw.
executeRunKick(s, l, fails) ==
    IF kickAborts(s, l) THEN [s EXCEPT !.loops[l].pc = "resume"]
    ELSE LET runId == NewRunId(s)
             jobId == s.loops[l].jobId
             s1 == [s EXCEPT !.jobs[jobId].state.runningRunId = runId,
                             !.jobs[jobId].updatedAtMs = s.now]
         IN IF fails THEN [s1 EXCEPT !.loops[l].pc = "die"]
            ELSE [persistUnsafe(s1, FALSE) EXCEPT
                      !.loops[l].pc = "exec",
                      !.loops[l].runId = runId,
                      !.activeRuns = @ + 1]

\* Whether the post-run step of executeRun returns at its guards.
finalSkips(s, l) ==
    LET r == s.loops[l]
    IN \/ ~Has(s, r.jobId)
       \/ s.jobs[r.jobId].state.runningRunId # r.runId

\* The post-run step of executeRun, under the serializer.
postRun(s, l) ==
    LET r == s.loops[l]
        jobId == r.jobId
        job == s.jobs[jobId]
        s1 == [s EXCEPT !.jobs[jobId].state.runningRunId = 0,
                        !.jobs[jobId].state.lastStatus =
                            IF r.ok THEN "ok" ELSE "error",
                        !.jobs[jobId].state.consecutiveFailures =
                            IF r.ok THEN 0 ELSE @ + 1,
                        !.jobs[jobId].updatedAtMs = r.endedAt]
    IN IF job.schedule.kind = "at"
       THEN handleAtCompletionUnsafe(s1, jobId, r.endedAt, r.ok)
       ELSE IF job.schedule.kind = "every"
       THEN scheduleJobUnsafe(
                [s1 EXCEPT !.jobs[jobId].state.nextRunAtMs =
                              computeEveryNextAt(job.schedule.anchorMs,
                                                 job.schedule.everyMs, r.endedAt)],
                jobId, FALSE)
       ELSE [s1 EXCEPT !.jobs[jobId].state.nextRunAtMs =
                          IF s1.cronHandles[jobId] # 0
                          THEN CronNextRun(s1.now) ELSE 0]

\* executeRun(req) from the post-run step to its end: the step, then the
\* decrement of activeRuns.  A failed write makes executeRun throw before
\* the decrement.
executeRunFinal(s, l, fails) ==
    IF finalSkips(s, l)
    THEN [s EXCEPT !.loops[l].pc = "resume",
                   !.activeRuns = Max(0, @ - 1)]
    ELSE IF fails THEN [postRun(s, l) EXCEPT !.loops[l].pc = "die"]
    ELSE [persistUnsafe(postRun(s, l), FALSE) EXCEPT
              !.loops[l].pc = "resume",
              !.activeRuns = Max(0, @ - 1)]


\* normalizeLoadedJob(raw, ...) for a record persistUnsafe wrote: every field
\* is kept but a nextRunAtMs that is not positive, which is replaced by
\* initialNextRun, and an updatedAtMs that is not positive, which is replaced
\* by now.
normalizeLoadedJob(rec, t) ==
    [rec EXCEPT !.state.nextRunAtMs =
                   IF rec.state.nextRunAtMs > 0 THEN rec.state.nextRunAtMs
                   ELSE initialNextRun(rec.schedule, t),
                !.updatedAtMs = IF rec.updatedAtMs > 0 THEN rec.updatedAtMs ELSE t]

\* loadStoreUnsafe(), after this.jobs.clear().
loadStoreUnsafe(s) ==
    [s EXCEPT !.jobs = [j \in JobIds |->
                           IF s.store[j] = NoJob THEN NoJob
                           ELSE normalizeLoadedJob(s.store[j], s.now)]]

\* The body of the loop of recoverDanglingRunsUnsafe without the count of a
\* failure.
recoverJobCountsNothing(job, t) ==
    IF job = NoJob THEN job
    ELSE IF job.state.runningRunId = 0 THEN job
    ELSE LET j1 == [job EXCEPT !.state.runningRunId = 0,
                               !.state.lastStatus = "error",
                               !.updatedAtMs = t]
         IN IF ~j1.enabled THEN j1
            ELSE IF j1.schedule.kind = "at" /\ j1.state.nextRunAtMs <= 0
            THEN [j1 EXCEPT !.state.nextRunAtMs = j1.schedule.atMs]
            ELSE IF j1.schedule.kind = "every" /\ j1.state.nextRunAtMs <= 0
            THEN [j1 EXCEPT !.state.nextRunAtMs =
                               computeEveryNextAt(j1.schedule.anchorMs,
                                                  j1.schedule.everyMs, t)]
            ELSE j1

\* The body of the loop of recoverDanglingRunsUnsafe for one job.
recoverJob(job, t) ==
    IF job = NoJob THEN job
    ELSE IF job.state.runningRunId = 0 THEN job
    ELSE LET j1 == [job EXCEPT !.state.runningRunId = 0,
                               !.state.lastStatus = "error",
                               !.state.consecutiveFailures = @ + 1,
                               !.updatedAtMs = t]
         IN IF ~j1.enabled THEN j1
            ELSE IF j1.schedule.kind = "at" /\ j1.state.nextRunAtMs <= 0
            THEN [j1 EXCEPT !.state.nextRunAtMs = j1.schedule.atMs]
            ELSE IF j1.schedule.kind = "every" /\ j1.state.nextRunAtMs <= 0
            THEN [j1 EXCEPT !.state.nextRunAtMs =
                               computeEveryNextAt(j1.schedule.anchorMs,
                                                  j1.schedule.everyMs, t)]
            ELSE j1

\* recoverDanglingRunsUnsafe(): the job map as it leaves it.
recoverDanglingRunsUnsafe(s) ==
    [s EXCEPT !.jobs = [j \in JobIds |-> recoverJob(s.jobs[j], s.now)]]

\* What recoverDanglingRunsUnsafe() returns: whether an enabled job was
\* recovered.
recoverChanged(s) ==
    \E j \in JobIds : /\ s.jobs[j] # NoJob
                      /\ s.jobs[j].state.runningRunId # 0
                      /\ s.jobs[j].enabled

\* for (const job of this.jobs.values()) scheduleJobUnsafe(job, true)
RECURSIVE scheduleAllFrom(_, _)
scheduleAllFrom(s, j) ==
    IF j \notin JobIds THEN s
    ELSE scheduleAllFrom(IF Has(s, j) THEN scheduleJobUnsafe(s, j, TRUE) ELSE s, j + 1)

\* start() up to the await in loadStoreUnsafe, without the refusal of a
\* started service.
startHeadAlways(s) ==
    [s EXCEPT !.stopping = FALSE, !.jobs = [j \in JobIds |-> NoJob]]

\* start() up to the await in loadStoreUnsafe.
startHead(s) ==
    IF s.started THEN s
    ELSE [s EXCEPT !.stopping = FALSE, !.jobs = [j \in JobIds |-> NoJob]]

\* start() after the load: recovery, the triggers, the write when recovery
\* changed a job, and the started flag unless the write threw.
startTail(s, wasStarted, fails) ==
    IF wasStarted THEN s
    ELSE LET s1 == loadStoreUnsafe(s)
             changed == recoverChanged(s1)
             s2 == recoverDanglingRunsUnsafe(s1)
             s3 == IF OptsEnabled THEN scheduleAllFrom(s2, 1) ELSE s2
         IN IF changed /\ fails THEN s3
            ELSE [(IF changed THEN persistUnsafe(s3, FALSE) ELSE s3)
                      EXCEPT !.started = TRUE]

\* Whether start() reaches persistUnsafe.
startPersists(s) == ~s.started /\ recoverChanged(loadStoreUnsafe(s))

\* stop(), the task given to runExclusive.
stop(s) ==
    IF ~s.started /\ s.stopping THEN s
    ELSE [clearAllSchedulesUnsafe([s EXCEPT !.stopping = TRUE])
              EXCEPT !.started = FALSE]

\* ------------------------------------------------------------ actions

PendingLoops(s) == { l \in LoopIds : s.loops[l].pc \in {"resume", "die"} }

RECURSIVE resumeSetFrom(_, _, _)
resumeSetFrom(s, P, l) ==
    IF l \notin LoopIds THEN s
    ELSE resumeSetFrom(IF l \in P THEN resumeLoop(s, l) ELSE s, P, l + 1)

\* The continuations of processRunQueue that were queued before the task
\* began: they run at the task's first await.
AtFirstAwait(s) == resumeSetFrom(s, PendingLoops(Cur), 1)

\* The end of a task: with no task chained behind it, the continuation it
\* queued runs before anything else; otherwise the next task's first part
\* runs first.
AtEnd(s) == IF Len(s.opQueue) = 0 THEN resumeLoops(s) ELSE s

\* The state a task starts from: itself taken off the chain.
Taken == [Cur EXCEPT !.opQueue = Tail(@)]

HeadIs(type) == Len(opQueue) > 0 /\ Head(opQueue).type = type

FailChoices(reaches) == IF reaches /\ faults < MaxFaults THEN BOOLEAN ELSE {FALSE}

Count(fails) == faults' = faults + (IF fails THEN 1 ELSE 0)

CanSubmit == calls < MaxCalls /\ Len(opQueue) < MaxPending

Submit(op) ==
    /\ opQueue' = Append(opQueue, op)
    /\ UNCHANGED <<now, jobs, store, timerHandles, timers, cronHandles, runQueue,
                   queuedJobIds, started, stopping, processingQueue, activeRuns,
                   loops, crashes, faults, batchRuns>>

Init ==
    /\ now = StartMs
    /\ jobs = [j \in JobIds |-> NoJob]
    /\ store = [j \in JobIds |-> NoJob]
    /\ timerHandles = [j \in JobIds |-> 0]
    /\ timers = [t \in TimerIds |-> NoTimer]
    /\ cronHandles = [j \in JobIds |-> 0]
    /\ runQueue = <<>>
    /\ queuedJobIds = {}
    /\ started = FALSE
    /\ stopping = FALSE
    /\ processingQueue = FALSE
    /\ activeRuns = 0
    /\ opQueue = <<>>
    /\ loops = [l \in LoopIds |-> IdleLoop]
    /\ calls = 0
    /\ crashes = 0
    /\ faults = 0
    /\ batchRuns = [j \in JobIds |-> 0]

\* The clock advances; a live cron handle whose next instant is reached
\* has a tick due.
Tick ==
    \E d \in TickSteps :
        /\ now + d <= MaxNow
        /\ now' = now + d
        /\ cronHandles' = [j \in JobIds |->
                              IF cronHandles[j] = 1 /\ CronNextRun(now) <= now + d
                              THEN 2 ELSE cronHandles[j]]
        /\ UNCHANGED <<jobs, store, timerHandles, timers, runQueue, queuedJobIds,
                       started, stopping, processingQueue, activeRuns, opQueue,
                       loops, calls, crashes, faults, batchRuns>>

\* The API calls: each hands its task to runExclusive.
CallStart == CanSubmit /\ calls' = calls + 1 /\ Submit(Op("start", 0, 0))

CallStop == CanSubmit /\ calls' = calls + 1 /\ Submit(Op("stop", 0, 0))

CallCreate ==
    /\ CanSubmit
    /\ Cardinality({ j \in JobIds : \A k \in KnownJobIds(Cur) : j > k })
         > Cardinality({ i \in 1..Len(opQueue) : opQueue[i].type = "create" })
    /\ \E input \in CreateInputs :
          /\ calls' = calls + 1
          /\ Submit(Op("create", 0, input))

\* create called with an input that may be malformed.
CallCreateChecked ==
    /\ CanSubmit
    /\ Cardinality({ j \in JobIds : \A k \in KnownJobIds(Cur) : j > k })
         > Cardinality({ i \in 1..Len(opQueue) :
                            opQueue[i].type \in {"create", "createChecked"} })
    /\ \E raw \in RawCreateInputs :
          /\ calls' = calls + 1
          /\ Submit(Op("createChecked", 0, raw))

CallRemove ==
    /\ CanSubmit
    /\ \E j \in JobIds : Has(Cur, j) /\ calls' = calls + 1 /\ Submit(Op("remove", j, 0))

CallSetEnabled ==
    /\ CanSubmit
    /\ \E j \in JobIds, b \in BOOLEAN :
          Has(Cur, j) /\ calls' = calls + 1 /\ Submit(Op("setEnabled", j, b))

CallRename ==
    /\ CanSubmit
    /\ \E j \in JobIds, name \in RenameInputs :
          Has(Cur, j) /\ calls' = calls + 1 /\ Submit(Op("rename", j, name))

CallRunNow ==
    /\ CanSubmit
    /\ \E j \in JobIds : Has(Cur, j) /\ calls' = calls + 1 /\ Submit(Op("runNow", j, 0))

\* A platform timer fires: its callback calls onTimer, which hands its task
\* to runExclusive.
TimerFires ==
    \E t \in TimerIds :
        /\ timers[t] # NoTimer
        /\ timers[t].fireAt <= now
        /\ Len(opQueue) < MaxPending
        /\ timers' = [timers EXCEPT ![t] = NoTimer]
        /\ opQueue' = Append(opQueue, Op("onTimer", timers[t].jobId, timers[t].dueAtMs))
        /\ UNCHANGED <<now, jobs, store, timerHandles, cronHandles, runQueue,
                       queuedJobIds, started, stopping, processingQueue, activeRuns,
                       loops, calls, crashes, faults, batchRuns>>

\* A cron handle ticks: its callback calls onCronTick.
CronTicks ==
    \E j \in JobIds :
        /\ cronHandles[j] = 2
        /\ Len(opQueue) < MaxPending
        /\ cronHandles' = [cronHandles EXCEPT ![j] = 1]
        /\ opQueue' = Append(opQueue, Op("onCronTick", j, 0))
        /\ UNCHANGED <<now, jobs, store, timerHandles, timers, runQueue,
                       queuedJobIds, started, stopping, processingQueue, activeRuns,
                       loops, calls, crashes, faults, batchRuns>>

\* runExecutor settles (the executor's reply, its failure or the timeout):
\* executeRun takes endedAt and hands the post-run step to runExclusive.
ExecutorDone ==
    \E l \in LoopIds, ok \in BOOLEAN :
        /\ loops[l].pc = "exec"
        /\ loops' = [loops EXCEPT ![l].pc = "final", ![l].endedAt = now, ![l].ok = ok]
        /\ opQueue' = Append(opQueue, Op("final", loops[l].jobId, l))
        /\ UNCHANGED <<now, jobs, store, timerHandles, timers, cronHandles, runQueue,
                       queuedJobIds, started, stopping, processingQueue, activeRuns,
                       calls, crashes, faults, batchRuns>>

\* The serialized tasks, one action per handler.
RunStart ==
    /\ HeadIs("start")
    /\ \E fails \in FailChoices(startPersists(Taken)) :
          /\ Commit(AtEnd(startTail(AtFirstAwait(startHead(Taken)), started, fails)))
          /\ Count(fails)
    /\ UNCHANGED <<now, calls, crashes>>

RunStop ==
    /\ HeadIs("stop")
    /\ Commit(AtEnd(AtFirstAwait(stop(Taken))))
    /\ UNCHANGED <<now, calls, crashes, faults>>

RunCreate ==
    /\ HeadIs("create")
    /\ \E fails \in FailChoices(~createOverQuota(Cur, Head(opQueue).arg)) :
          /\ Commit(AtEnd(AtFirstAwait(create(Taken, Head(opQueue).arg, fails))))
          /\ Count(fails)
    /\ UNCHANGED <<now, calls, crashes>>

RunCreateChecked ==
    /\ HeadIs("createChecked")
    /\ \E fails \in FailChoices(~createThrows(Cur, Head(opQueue).arg)) :
          /\ Commit(AtEnd(AtFirstAwait(createChecked(Taken, Head(opQueue).arg, fails))))
          /\ Count(fails)
    /\ UNCHANGED <<now, calls, crashes>>

RunRemove ==
    /\ HeadIs("remove")
    /\ \E fails \in FailChoices(Has(Cur, Head(opQueue).jobId)) :
          /\ Commit(AtEnd(AtFirstAwait(remove(Taken, Head(opQueue).jobId, fails))))
          /\ Count(fails)
    /\ UNCHANGED <<now, calls, crashes>>

RunSetEnabled ==
    /\ HeadIs("setEnabled")
    /\ \E fails \in FailChoices(Has(Cur, Head(opQueue).jobId)) :
          /\ Commit(AtEnd(AtFirstAwait(
                 setEnabled(Taken, Head(opQueue).jobId, Head(opQueue).arg, fails))))
          /\ Count(fails)
    /\ UNCHANGED <<now, calls, crashes>>

RunRename ==
    /\ HeadIs("rename")
    /\ \E fails \in FailChoices(Has(Cur, Head(opQueue).jobId)) :
          /\ Commit(AtEnd(AtFirstAwait(
                 rename(Taken, Head(opQueue).jobId, Head(opQueue).arg, fails))))
          /\ Count(fails)
    /\ UNCHANGED <<now, calls, crashes>>

RunRunNow ==
    /\ HeadIs("runNow")
    /\ Commit(AtEnd(AtFirstAwait(runNow(Taken, Head(opQueue).jobId))))
    /\ UNCHANGED <<now, calls, crashes, faults>>

RunOnTimer ==
    /\ HeadIs("onTimer")
    /\ Commit(AtEnd(AtFirstAwait(onTimer(Taken, Head(opQueue).jobId, Head(opQueue).arg))))
    /\ UNCHANGED <<now, calls, crashes, faults>>

RunOnCronTick ==
    /\ HeadIs("onCronTick")
    /\ LET j == Head(opQueue).jobId
           skipped == onCronTickSkips(Cur, j)
       IN \E fails \in FailChoices(~skipped) :
             /\ Commit(AtEnd(onCronTickTail(
                    AtFirstAwait(onCronTickHead(Taken, j, fails)), j, skipped, fails)))
             /\ Count(fails)
    /\ UNCHANGED <<now, calls, crashes>>

RunKick ==
    /\ HeadIs("kick")
    /\ LET l == Head(opQueue).arg
       IN \E fails \in FailChoices(~kickAborts(Cur, l)) :
             /\ Commit(AtEnd(executeRunKick(AtFirstAwait(Taken), l, fails)))
             /\ Count(fails)
    /\ UNCHANGED <<now, calls, crashes>>

RunFinal ==
    /\ HeadIs("final")
    /\ LET l == Head(opQueue).arg
       IN \E fails \in FailChoices(~finalSkips(Cur, l)) :
             /\ Commit(AtEnd(executeRunFinal(AtFirstAwait(Taken), l, fails)))
             /\ Count(fails)
    /\ UNCHANGED <<now, calls, crashes>>

\* status(chatId): the counts over the jobs of the chat, the length of the
\* run queue, and the earliest nextRunAtMs of the chat's enabled jobs (0 when
\* there is none).
status(s, chatId) ==
    LET mine == { j \in JobIds : Has(s, j) /\ s.jobs[j].chatId = chatId }
        due == { s.jobs[j].state.nextRunAtMs :
                   j \in { i \in mine : s.jobs[i].enabled
                                        /\ s.jobs[i].state.nextRunAtMs > 0 } }
    IN [enabled |-> OptsEnabled,
        totalJobs |-> Cardinality(mine),
        enabledJobs |-> Cardinality({ j \in mine : s.jobs[j].enabled }),
        runningJobs |-> Cardinality({ j \in mine : s.jobs[j].state.runningRunId # 0 }),
        queuedJobs |-> Len(s.runQueue),
        nextRunAtMs |-> IF due = {} THEN 0
                        ELSE CHOOSE x \in due : \A y \in due : x <= y]

\* ensureOwned(id), and the test the /cron del, rename and run commands make
\* on cron.get(id): the job exists and belongs to the chat.
ensureOwned(s, chatId, id) == Has(s, id) /\ s.jobs[id].chatId = chatId

\* A command that is answered without reaching the service.
Answered ==
    UNCHANGED <<now, jobs, store, timerHandles, timers, cronHandles, runQueue,
                queuedJobIds, started, stopping, processingQueue, activeRuns,
                opQueue, loops, crashes, faults, batchRuns>>

\* The argument of a task the bot hands to the service for a chat.
ForChat(chatId, value) == [chatId |-> chatId, value |-> value]

\* "/cron on <id>" and "/cron off <id>" sent in a chat: the handler calls
\* setEnabled(id, ...) and tests the owner of the job it gets back.
CmdOnOff ==
    /\ CanSubmit
    /\ \E chatId \in {1, 2}, id \in { j \in JobIds : Has(Cur, j) }, on \in BOOLEAN :
          /\ calls' = calls + 1
          /\ Submit(Op("cronOnOff", id, ForChat(chatId, on)))

\* The on and off directives of a chat: ensureOwned(id), then setEnabled.
DirectiveOnOff ==
    /\ CanSubmit
    /\ \E chatId \in {1, 2}, id \in { j \in JobIds : Has(Cur, j) }, on \in BOOLEAN :
          /\ calls' = calls + 1
          /\ IF ensureOwned(Cur, chatId, id)
             THEN Submit(Op("cronOnOff", id, ForChat(chatId, on)))
             ELSE Answered

\* "/cron del <id>" and the del directive: the owner test, then remove(id).
CmdDel ==
    /\ CanSubmit
    /\ \E chatId \in {1, 2}, id \in { j \in JobIds : Has(Cur, j) } :
          /\ calls' = calls + 1
          /\ IF ensureOwned(Cur, chatId, id)
             THEN Submit(Op("cronDel", id, ForChat(chatId, 0)))
             ELSE Answered

\* "/cron rename <id> <name>", the rename directive and the pending rename
\* input: the owner test, then rename(id, name).
CmdRename ==
    /\ CanSubmit
    /\ \E chatId \in {1, 2}, id \in { j \in JobIds : Has(Cur, j) } :
          /\ calls' = calls + 1
          /\ IF ensureOwned(Cur, chatId, id)
             THEN Submit(Op("cronRename", id, ForChat(chatId, "renamed")))
             ELSE Answered

\* "/cron run <id>" and the run directive: the owner test, then runNow(id).
CmdRun ==
    /\ CanSubmit
    /\ \E chatId \in {1, 2}, id \in { j \in JobIds : Has(Cur, j) } :
          /\ calls' = calls + 1
          /\ IF ensureOwned(Cur, chatId, id)
             THEN Submit(Op("cronRun", id, ForChat(chatId, 0)))
             ELSE Answered

\* The tasks of the bot's calls.
RunCronOnOff ==
    /\ HeadIs("cronOnOff")
    /\ \E fails \in FailChoices(Has(Cur, Head(opQueue).jobId)) :
          /\ Commit(AtEnd(AtFirstAwait(
                 setEnabled(Taken, Head(opQueue).jobId, Head(opQueue).arg.value, fails))))
          /\ Count(fails)
    /\ UNCHANGED <<now, calls, crashes>>

RunCronDel ==
    /\ HeadIs("cronDel")
    /\ \E fails \in FailChoices(Has(Cur, Head(opQueue).jobId)) :
          /\ Commit(AtEnd(AtFirstAwait(remove(Taken, Head(opQueue).jobId, fails))))
          /\ Count(fails)
    /\ UNCHANGED <<now, calls, crashes>>

RunCronRename ==
    /\ HeadIs("cronRename")
    /\ \E fails \in FailChoices(Has(Cur, Head(opQueue).jobId)) :
          /\ Commit(AtEnd(AtFirstAwait(
                 rename(Taken, Head(opQueue).jobId, Head(opQueue).arg.value, fails))))
          /\ Count(fails)
    /\ UNCHANGED <<now, calls, crashes>>

RunCronRun ==
    /\ HeadIs("cronRun")
    /\ Commit(AtEnd(AtFirstAwait(runNow(Taken, Head(opQueue).jobId))))
    /\ UNCHANGED <<now, calls, crashes, faults>>

\* What the executor does with a run: its promise resolves with ok, resolves
\* with ok === false, rejects, or never settles before the timeout; the
\* executor function throws before it returns a promise; or no executor is
\* set.
ExecutorOutcomes == {"resolves", "resolvesNotOk", "rejects", "timeout", "throws", "missing"}

\* runExecutor(ctx): the result it returns, or thrown when it rejects.  The
\* catch is on the executor's promise only, so an error the call itself
\* throws leaves through the finally block.
runExecutor(outcome) ==
    IF outcome = "missing" THEN [thrown |-> FALSE, ok |-> FALSE]
    ELSE IF outcome = "throws" THEN [thrown |-> TRUE, ok |-> FALSE]
    ELSE [thrown |-> FALSE, ok |-> outcome = "resolves"]

\* runExecutor settles in executeRun: with a result, executeRun takes endedAt
\* and hands the post-run step to runExclusive; thrown, executeRun rejects
\* where it stands and processRunQueue leaves through its finally block.
ExecutorSettles ==
    \E l \in LoopIds, outcome \in ExecutorOutcomes :
        /\ loops[l].pc = "exec"
        /\ LET result == runExecutor(outcome)
           IN IF result.thrown
              THEN /\ loops' = [loops EXCEPT ![l] = IdleLoop]
                   /\ processingQueue' = FALSE
                   /\ opQueue' = opQueue
              ELSE /\ loops' = [loops EXCEPT ![l].pc = "final", ![l].endedAt = now,
                                             ![l].ok = result.ok]
                   /\ processingQueue' = processingQueue
                   /\ opQueue' = Append(opQueue, Op("final", loops[l].jobId, l))
        /\ UNCHANGED <<now, jobs, store, timerHandles, timers, cronHandles, runQueue,
                       queuedJobIds, started, stopping, activeRuns,
                       calls, crashes, faults, batchRuns>>

\* create called for a job that waits on a timer.
CallCreateTimed ==
    /\ CanSubmit
    /\ Cardinality({ j \in JobIds : \A k \in KnownJobIds(Cur) : j > k })
         > Cardinality({ i \in 1..Len(opQueue) : opQueue[i].type = "create" })
    /\ \E input \in TimedInputs :
          /\ calls' = calls + 1
          /\ Submit(Op("create", 0, input))

\* Nothing happens until a pending timer expires: the clock moves to its
\* expiry, as long as that is within reach of the farthest target.
Sleep ==
    \E t \in TimerIds :
        /\ timers[t] # NoTimer
        /\ timers[t].fireAt > now
        /\ timers[t].fireAt <= FarMs + MaxNow - StartMs
        /\ now' = timers[t].fireAt
        /\ UNCHANGED <<jobs, store, timerHandles, timers, cronHandles, runQueue,
                       queuedJobIds, started, stopping, processingQueue, activeRuns,
                       opQueue, loops, calls, crashes, faults, batchRuns>>

\* A platform timer fires before its delay has passed.
TimerFiresEarly ==
    \E t \in TimerIds :
        /\ timers[t] # NoTimer
        /\ timers[t].fireAt > now
        /\ Len(opQueue) < MaxPending
        /\ timers' = [timers EXCEPT ![t] = NoTimer]
        /\ opQueue' = Append(opQueue, Op("onTimer", timers[t].jobId, timers[t].dueAtMs))
        /\ UNCHANGED <<now, jobs, store, timerHandles, cronHandles, runQueue,
                       queuedJobIds, started, stopping, processingQueue, activeRuns,
                       loops, calls, crashes, faults, batchRuns>>

\* The process exits and a new one constructs the service: only the store
\* file and the clock outlive it.
Crash ==
    /\ crashes < MaxCrashes
    /\ crashes' = crashes + 1
    /\ jobs' = [j \in JobIds |-> NoJob]
    /\ timerHandles' = [j \in JobIds |-> 0]
    /\ timers' = [t \in TimerIds |-> NoTimer]
    /\ cronHandles' = [j \in JobIds |-> 0]
    /\ runQueue' = <<>>
    /\ queuedJobIds' = {}
    /\ started' = FALSE
    /\ stopping' = FALSE
    /\ processingQueue' = FALSE
    /\ activeRuns' = 0
    /\ opQueue' = <<>>
    /\ loops' = [l \in LoopIds |-> IdleLoop]
    /\ batchRuns' = [j \in JobIds |-> 0]
    /\ UNCHANGED <<now, store, calls, faults>>

Next ==
    \/ Tick
    \/ CallStart
    \/ CallStop
    \/ CallCreate
    \/ CallRemove
    \/ CallSetEnabled
    \/ CallRename
    \/ CallRunNow
    \/ TimerFires
    \/ CronTicks
    \/ ExecutorDone
    \/ RunStart
    \/ RunStop
    \/ RunCreate
    \/ RunRemove
    \/ RunSetEnabled
    \/ RunRename
    \/ RunRunNow
    \/ RunOnTimer
    \/ RunOnCronTick
    \/ RunKick
    \/ RunFinal
    \/ Crash

Spec == Init /\ [][Next]_vars

\* The service driven by callers whose create inputs are not validated
\* beforehand: start, stop, create and remove, and everything the triggers
\* and the dispatcher do.
InputNext ==
    \/ Tick
    \/ CallStart
    \/ CallStop
    \/ CallCreateChecked
    \/ CallRemove
    \/ TimerFires
    \/ CronTicks
    \/ ExecutorDone
    \/ RunStart
    \/ RunStop
    \/ RunCreateChecked
    \/ RunRemove
    \/ RunOnTimer
    \/ RunOnCronTick
    \/ RunKick
    \/ RunFinal

InputSpec == Init /\ [][InputNext]_vars

\* The service driven by the bot: the chats create jobs and send the /cron
\* commands and directives that name a job id.
BotNext ==
    \/ Tick
    \/ CallStart
    \/ CallCreate
    \/ CmdOnOff
    \/ DirectiveOnOff
    \/ CmdDel
    \/ CmdRename
    \/ CmdRun
    \/ TimerFires
    \/ CronTicks
    \/ ExecutorDone
    \/ RunStart
    \/ RunCreate
    \/ RunCronOnOff
    \/ RunCronDel
    \/ RunCronRename
    \/ RunCronRun
    \/ RunOnTimer
    \/ RunOnCronTick
    \/ RunKick
    \/ RunFinal

BotSpec == Init /\ [][BotNext]_vars

\* The service with an executor that may fail in every way: jobs are
\* created, the service is started, runs are asked for, and the triggers and
\* the dispatcher do their work.
RunNext ==
    \/ Tick
    \/ CallStart
    \/ CallCreate
    \/ CallRunNow
    \/ TimerFires
    \/ CronTicks
    \/ ExecutorSettles
    \/ RunStart
    \/ RunCreate
    \/ RunRunNow
    \/ RunOnTimer
    \/ RunOnCronTick
    \/ RunKick
    \/ RunFinal

RunSpec == Init /\ [][RunNext]_vars

\* What the event loop does by itself: the serializer runs the task at its
\* head, a timer that is due fires, a cron handle that is due ticks, and
\* runExecutor settles, at the latest when its timeout fires.
EventLoop ==
    \/ RunStart
    \/ RunCreate
    \/ RunRunNow
    \/ RunOnTimer
    \/ RunOnCronTick
    \/ RunKick
    \/ RunFinal
    \/ TimerFires
    \/ CronTicks
    \/ ExecutorSettles

\* The states in which EventLoop can take a step: a task waits on the
\* serializer, an executor has been called, or a timer or cron handle is due
\* and its callback can hand over its task.
HasWork ==
    \/ Len(opQueue) > 0
    \/ \E l \in LoopIds : loops[l].pc = "exec"
    \/ /\ Len(opQueue) < MaxPending
       /\ \/ \E t \in TimerIds : timers[t] # NoTimer /\ timers[t].fireAt <= now
          \/ \E j \in JobIds : cronHandles[j] = 2

\* The same service under the scheduling the platform gives: runExecutor
\* settles, its timer firing at the latest, and the event loop does not stand
\* still while it has work (weak fairness of EventLoop, with HasWork for its
\* enabling condition).
LiveSpec ==
    /\ RunSpec
    /\ WF_vars(ExecutorSettles)
    /\ []<>~HasWork \/ []<><<EventLoop>>_vars


\* The service with jobs that wait on timers, near and far: the clock ticks
\* or sleeps until a timer expires, and a timer fires on time or early.
TimerNext ==
    \/ Tick
    \/ Sleep
    \/ CallStart
    \/ CallCreateTimed
    \/ TimerFires
    \/ TimerFiresEarly
    \/ ExecutorDone
    \/ RunStart
    \/ RunCreate
    \/ RunOnTimer
    \/ RunKick
    \/ RunFinal

TimerSpec == Init /\ [][TimerNext]_vars

\* ------------------------------------- the two chains at await grain

\* A task called at once, without waiting for the chain.
MayRunUnchained(q, i) == TRUE

\* task = this.opQueue.then(fn, fn): fn runs once every task chained
\* before it has settled, fulfilled or rejected; a settled task has left
\* the chain, so the task that may run is the first one.
MayRun(q, i) == i = 1

\* A task that awaits its persistUnsafe(): "persist" once the write is
\* chained on writeQueue, "writing" once the write has taken its snapshot.
Suspended(op) == op.type \in {"persist", "writing"}

\* task = this.writeQueue.then(...): the write starts once every write
\* chained before it has settled.
MayWrite(q, i) == \A k \in 1..Len(q) : q[k].type # "writing"

Without(q, i) == [k \in 1..(Len(q) - 1) |-> IF k < i THEN q[k] ELSE q[k + 1]]

\* The task at position i runs up to its await of persistUnsafe() and
\* leaves the job map s1; a task that returns before persisting settles.
Begin(i, s1, reaches) ==
    /\ Commit([s1 EXCEPT !.opQueue =
                  IF reaches
                  THEN [opQueue EXCEPT
                           ![i] = Op("persist", @.jobId, [called |-> s1.jobs])]
                  ELSE Without(opQueue, i)])
    /\ UNCHANGED <<now, calls, crashes, faults>>

BeginCreate ==
    \E i \in 1..Len(opQueue) :
        /\ opQueue[i].type = "create"
        /\ MayRun(opQueue, i)
        /\ Begin(i, create(Cur, opQueue[i].arg, TRUE),
                 ~createOverQuota(Cur, opQueue[i].arg))

BeginRemove ==
    \E i \in 1..Len(opQueue) :
        /\ opQueue[i].type = "remove"
        /\ MayRun(opQueue, i)
        /\ Begin(i, remove(Cur, opQueue[i].jobId, TRUE), Has(Cur, opQueue[i].jobId))

BeginSetEnabled ==
    \E i \in 1..Len(opQueue) :
        /\ opQueue[i].type = "setEnabled"
        /\ MayRun(opQueue, i)
        /\ Begin(i, setEnabled(Cur, opQueue[i].jobId, opQueue[i].arg, TRUE),
                 Has(Cur, opQueue[i].jobId))

BeginRename ==
    \E i \in 1..Len(opQueue) :
        /\ opQueue[i].type = "rename"
        /\ MayRun(opQueue, i)
        /\ Begin(i, rename(Cur, opQueue[i].jobId, opQueue[i].arg, TRUE),
                 Has(Cur, opQueue[i].jobId))

\* The chained write starts: data = { jobs: [...this.jobs.values()] }.
WriteStarts ==
    \E i \in 1..Len(opQueue) :
        /\ opQueue[i].type = "persist"
        /\ MayWrite(opQueue, i)
        /\ opQueue' = [opQueue EXCEPT
                          ![i] = Op("writing", @.jobId,
                                    [called |-> @.arg.called, data |-> jobs])]
        /\ UNCHANGED <<now, jobs, store, timerHandles, timers, cronHandles,
                       runQueue, queuedJobIds, started, stopping,
                       processingQueue, activeRuns, loops, calls, crashes,
                       faults, batchRuns>>

\* writeFile and rename finish or throw; the awaiting task settles.
WriteSettles ==
    \E i \in 1..Len(opQueue) :
        /\ opQueue[i].type = "writing"
        /\ \E fails \in FailChoices(TRUE) :
              /\ store' = IF fails THEN store ELSE opQueue[i].arg.data
              /\ Count(fails)
        /\ opQueue' = Without(opQueue, i)
        /\ UNCHANGED <<now, jobs, timerHandles, timers, cronHandles, runQueue,
                       queuedJobIds, started, stopping, processingQueue,
                       activeRuns, loops, calls, crashes, batchRuns>>

ChainNext ==
    \/ CallCreate
    \/ CallRemove
    \/ CallSetEnabled
    \/ CallRename
    \/ BeginCreate
    \/ BeginRemove
    \/ BeginSetEnabled
    \/ BeginRename
    \/ WriteStarts
    \/ WriteSettles

ChainSpec == Init /\ [][ChainNext]_vars

\* The service started, stopped and started again while jobs are created,
\* run by hand and fired by their timers.
StopNext ==
    \/ Tick
    \/ CallStart
    \/ CallStop
    \/ CallCreate
    \/ CallRunNow
    \/ TimerFires
    \/ ExecutorDone
    \/ RunStart
    \/ RunStop
    \/ RunCreate
    \/ RunRunNow
    \/ RunOnTimer
    \/ RunKick
    \/ RunFinal

StopSpec == Init /\ [][StopNext]_vars

\* What the event loop does by itself in StopSpec.
StopLoop == EventLoop \/ RunStop \/ ExecutorDone

\* StopSpec under the scheduling the platform gives: the executor returns,
\* and the event loop does not stand still while it has work.
StopLiveSpec ==
    /\ StopSpec
    /\ WF_vars(ExecutorDone)
    /\ []<>~HasWork \/ []<><<StopLoop>>_vars


\* ------------------------------------------------------------- claims

\* The dispatches that own job j's runningRunId: executeRun has set it and
\* has not yet run its post-run step.
Owners(j) ==
    { l \in LoopIds : /\ loops[l].pc \in {"exec", "final"}
                      /\ loops[l].jobId = j
                      /\ jobs[j] # NoJob
                      /\ jobs[j].state.runningRunId = loops[l].runId }

\* The start step of some dispatch sets runningRunId in this step.
KickStarts(l) ==
    /\ HeadIs("kick") /\ Head(opQueue).arg = l
    /\ loops[l].pc = "kick" /\ loops'[l].pc # "kick"
    /\ crashes' = crashes
    /\ Has(Cur, loops[l].jobId)
    /\ jobs'[loops[l].jobId] # NoJob
    /\ jobs'[loops[l].jobId].state.runningRunId # jobs[loops[l].jobId].state.runningRunId

\* C1: at most one dispatch owns a job's runningRunId in every reachable
\* state, and the start step of a dispatch never sets runningRunId for a job
\* whose runningRunId is already set.
C1_AtMostOneRun ==
    /\ [](\A j \in JobIds : Cardinality(Owners(j)) <= 1)
    /\ [][\A l \in LoopIds :
             KickStarts(l) => jobs[loops[l].jobId].state.runningRunId = 0]_vars

\* C1 witness: a dispatch owns a job while a second request for the same job
\* waits in the run queue.
C1_Witness ==
    \E j \in JobIds : Owners(j) # {} /\ Queued(Cur, j)

\* C2: triggers for one job that are accepted before the job's run has
\* finished lead to one call of the executor: the executor is called at most
\* once for a job between two instants at which the job has no request
\* queued and no dispatch that has yet to finish.
C2_TriggersCollapse == \A j \in JobIds : batchRuns[j] <= 1

\* The triggers of job j that the platform still holds: pending timers,
\* recorded in timerHandles or not, and a live cron handle.
ArmedTriggers(j) ==
    Cardinality({ t \in TimerIds : timers[t] # NoTimer /\ timers[t].jobId = j })
    + (IF cronHandles[j] # 0 THEN 1 ELSE 0)

\* C3: every job has at most one armed timer or live cron handle.
C3_TriggerUniqueness == \A j \in JobIds : ArmedTriggers(j) <= 1

\* C4: the run queue holds no request for a job whose runningRunId is set
\* and no two requests for one job.
C4_QueueConsistent ==
    /\ \A i \in 1..Len(runQueue) :
          Has(Cur, runQueue[i].jobId) =>
              jobs[runQueue[i].jobId].state.runningRunId = 0
    /\ \A i, k \in 1..Len(runQueue) :
          runQueue[i].jobId = runQueue[k].jobId => i = k

\* A dispatch of this process is in flight for job j: between the start
\* step and the post-run step of executeRun.
InFlight(j) == \E l \in LoopIds : loops[l].pc \in {"exec", "final"} /\ loops[l].jobId = j

\* C5: as long as no store write has failed, a job's runningRunId is set
\* exactly when a dispatch of the process is in flight for it.
C5_RunningIffInFlight ==
    faults = 0 =>
        \A j \in JobIds : Has(Cur, j) => (jobs[j].state.runningRunId # 0 <=> InFlight(j))

\* C6: a job with enabled = false has nextRunAtMs = 0.
C6_DisabledHasNoNextRun ==
    \A j \in JobIds : Has(Cur, j) /\ ~jobs[j].enabled => jobs[j].state.nextRunAtMs = 0

\* C7: a job with enabled = false has no armed timer and no live cron handle.
C7_DisabledHasNoTrigger ==
    \A j \in JobIds :
        Has(Cur, j) /\ ~jobs[j].enabled => ArmedTriggers(j) = 0 /\ timerHandles[j] = 0

\* The post-run step of dispatch l runs in this step and passes its guards.
Finalizes(l) ==
    /\ HeadIs("final") /\ Head(opQueue).arg = l
    /\ loops[l].pc = "final" /\ loops'[l].pc # "final"
    /\ crashes' = crashes
    /\ ~finalSkips(Cur, l)

\* C8: the post-run step of a successful run of an At job leaves the job
\* deleted with no queued request for it, or disabled with nextRunAtMs = 0.
C8_AtSuccessEnds ==
    [][\A l \in LoopIds :
          LET j == loops[l].jobId
          IN Finalizes(l) /\ jobs[j].schedule.kind = "at" /\ loops[l].ok =>
                \/ /\ jobs'[j] = NoJob
                   /\ \A i \in 1..Len(runQueue') : runQueue'[i].jobId # j
                   /\ j \notin queuedJobIds'
                \/ /\ jobs'[j] # NoJob
                   /\ ~jobs'[j].enabled
                   /\ jobs'[j].state.nextRunAtMs = 0]_vars

\* C8 witness: an At job after a successful run that did not delete it.
C8_Witness ==
    \E j \in JobIds :
        /\ Has(Cur, j)
        /\ jobs[j].schedule.kind = "at"
        /\ jobs[j].state.lastStatus = "ok"
        /\ ~jobs[j].enabled
        /\ jobs[j].state.nextRunAtMs = 0

\* The job's timer is armed for instant t.
TimerArmedAt(th, ts, j, t) == th[j] # 0 /\ ts[th[j]] # NoTimer /\ ts[th[j]].dueAtMs = t

\* The retry instant after the k-th consecutive failure of a run that ended at t.
RetryAt(job, t, k) == t + job.policy.retryBackoffMs * Pow2(k - 1)

\* C9 as claimed: the post-run step of a failed run of an At job, the k-th
\* consecutive failure, keeps the job enabled with nextRunAtMs = end +
\* retryBackoffMs * 2^(k-1) and a timer armed for it when k <= retryMax, and
\* leaves it disabled with nextRunAtMs = 0 when k = retryMax + 1; a
\* successful run resets consecutiveFailures.
C9_RetryLadderAsClaimed ==
    [][\A l \in LoopIds :
          LET j == loops[l].jobId
              k == jobs[j].state.consecutiveFailures + 1
          IN Finalizes(l) /\ jobs[j].schedule.kind = "at" =>
                /\ ~loops[l].ok /\ k <= jobs[j].policy.retryMax =>
                      /\ jobs'[j].enabled
                      /\ jobs'[j].state.nextRunAtMs = RetryAt(jobs[j], loops[l].endedAt, k)
                      /\ TimerArmedAt(timerHandles', timers', j, jobs'[j].state.nextRunAtMs)
                /\ ~loops[l].ok /\ k = jobs[j].policy.retryMax + 1 =>
                      ~jobs'[j].enabled /\ jobs'[j].state.nextRunAtMs = 0
                /\ loops[l].ok /\ jobs'[j] # NoJob =>
                      jobs'[j].state.consecutiveFailures = 0]_vars

\* C9 amended: for a job that is enabled when the post-run step runs, and a
\* step that runs before the retry instant, the k-th consecutive failure
\* with k <= retryMax keeps the job enabled with nextRunAtMs = end +
\* retryBackoffMs * 2^(k-1), and a timer is armed for that instant when the
\* service is started and not stopping; a failure with k > retryMax, for any
\* job, leaves it disabled with nextRunAtMs = 0 and no request queued by the
\* step; a successful run resets consecutiveFailures.
C9_RetryLadder ==
    [][\A l \in LoopIds :
          LET j == loops[l].jobId
              k == jobs[j].state.consecutiveFailures + 1
              retryAt == RetryAt(jobs[j], loops[l].endedAt, k)
          IN Finalizes(l) /\ jobs[j].schedule.kind = "at" =>
                /\ ~loops[l].ok /\ k <= jobs[j].policy.retryMax
                   /\ jobs[j].enabled /\ retryAt > now =>
                      /\ jobs'[j].enabled
                      /\ jobs'[j].state.nextRunAtMs = retryAt
                      /\ jobs'[j].state.consecutiveFailures = k
                      /\ started /\ ~stopping =>
                            TimerArmedAt(timerHandles', timers', j, retryAt)
                /\ ~loops[l].ok /\ k > jobs[j].policy.retryMax =>
                      /\ ~jobs'[j].enabled
                      /\ jobs'[j].state.nextRunAtMs = 0
                      /\ Queued([runQueue |-> runQueue'], j) => Queued(Cur, j)
                /\ loops[l].ok /\ jobs'[j] # NoJob =>
                      jobs'[j].state.consecutiveFailures = 0]_vars

\* C9 witness: an enabled At job after its second consecutive failure, with
\* its timer armed for the retry instant.
C9_Witness ==
    \E j \in JobIds :
        /\ Has(Cur, j)
        /\ jobs[j].schedule.kind = "at"
        /\ jobs[j].enabled
        /\ jobs[j].state.lastStatus = "error"
        /\ jobs[j].state.consecutiveFailures = 2
        /\ jobs[j].state.nextRunAtMs > jobs[j].schedule.atMs
        /\ TimerArmedAt(timerHandles, timers, j, jobs[j].state.nextRunAtMs)

\* C10: when the post-run step of a failed run gives up on an At job
\* (consecutiveFailures exceeds retryMax), consecutiveFailures is at most
\* retryMax + 1.
C10_GiveUpBound ==
    [][\A l \in LoopIds :
          LET j == loops[l].jobId
              k == jobs[j].state.consecutiveFailures + 1
          IN Finalizes(l) /\ jobs[j].schedule.kind = "at" /\ ~loops[l].ok
             /\ k > jobs[j].policy.retryMax =>
                /\ ~jobs'[j].enabled
                /\ jobs'[j].state.consecutiveFailures <= jobs[j].policy.retryMax + 1]_vars


\* The head task of type `type` runs in this step: it leaves the chain, and
\* the process does not exit.
RunsTask(type) ==
    /\ HeadIs(type)
    /\ crashes' = crashes
    /\ ~(/\ Len(opQueue') >= Len(opQueue)
         /\ SubSeq(opQueue', 1, Len(opQueue)) = opQueue)

\* The chats the inputs of create name.
ChatIds == { input.chatId : input \in CreateInputs }

\* C11: in every state each chat has at most maxJobsPerChat jobs in the job
\* map and in the store, and the task of a create for a chat that holds
\* maxJobsPerChat jobs leaves the job map and the store as they are, whatever
\* other creates are pending on the serializer.
C11_Quota ==
    /\ [](\A c \in ChatIds :
            /\ perChatCount(Cur, c) <= maxJobsPerChat
            /\ Cardinality({ j \in JobIds : store[j] # NoJob /\ store[j].chatId = c })
                  <= maxJobsPerChat)
    /\ [][RunsTask("create")
            /\ perChatCount(Cur, Head(opQueue).arg.chatId) >= maxJobsPerChat
          => jobs' = jobs /\ store' = store]_vars

\* C11 witness: the task of a create is about to run for a chat that holds
\* maxJobsPerChat jobs, all of them in the store.
C11_Witness ==
    /\ HeadIs("create")
    /\ perChatCount(Cur, Head(opQueue).arg.chatId) >= maxJobsPerChat
    /\ \A j \in JobIds : Has(Cur, j) => store[j] # NoJob

\* C12: over the lifetime of a job in the job map, updatedAtMs never
\* decreases: as long as no store write has failed, no step takes a job that
\* is present before and after it to a smaller updatedAtMs.
C12_UpdatedAtMonotonic ==
    [][faults' = 0 =>
          \A j \in JobIds :
             jobs[j] # NoJob /\ jobs'[j] # NoJob =>
                jobs'[j].updatedAtMs >= jobs[j].updatedAtMs]_vars

\* C13: a serialized step whose store write does not fail and that changes
\* a job's enabled flag or lastStatus, or adds or deletes a job, leaves a
\* store whose record of the job has the new values.
C13_PersistReflects ==
    [][faults' = faults /\ crashes' = crashes =>
          \A j \in JobIds :
              jobs'[j] # jobs[j] =>
                  IF jobs'[j] = NoJob THEN store'[j] = NoJob
                  ELSE /\ store'[j] # NoJob
                       /\ store'[j].enabled = jobs'[j].enabled
                       /\ store'[j].state.lastStatus = jobs'[j].state.lastStatus]_vars

\* A job record as create and setEnabled leave it: a disabled job has no
\* next run, an enabled At or Every job has one.
ValidJob(job) ==
    /\ ~job.enabled => job.state.nextRunAtMs = 0
    /\ job.enabled /\ job.schedule.kind \in {"at", "every"} => job.state.nextRunAtMs > 0

\* C14: saving the job map with persistUnsafe and loading it back with
\* loadStoreUnsafe yields the same job records, whenever the records satisfy
\* that form.
C14_RoundTrip ==
    (\A j \in JobIds : Has(Cur, j) => ValidJob(jobs[j])) =>
        loadStoreUnsafe(persistUnsafe(Cur, FALSE)).jobs = jobs

\* C15: no start step of a dispatch sets runningRunId while the service is
\* stopping.
C15_NoDispatchWhileStopping ==
    [][\A l \in LoopIds : KickStarts(l) => ~stopping]_vars

\* C16: while the service is stopping (from stop's serialized section to the
\* next start) no timer is pending for any job, no cron handle is live and
\* the handle tables are empty.
C16_StoppedHasNoTrigger ==
    stopping =>
        /\ \A j \in JobIds : ArmedTriggers(j) = 0
        /\ \A j \in JobIds : timerHandles[j] = 0 /\ cronHandles[j] = 0


\* The state of a newly constructed service over the store and clock of s.
Constructed(s) ==
    [s EXCEPT !.jobs = [j \in JobIds |-> NoJob],
              !.timerHandles = [j \in JobIds |-> 0],
              !.timers = [x \in TimerIds |-> NoTimer],
              !.cronHandles = [j \in JobIds |-> 0],
              !.runQueue = <<>>,
              !.queuedJobIds = {},
              !.started = FALSE,
              !.stopping = FALSE,
              !.processingQueue = FALSE,
              !.activeRuns = 0,
              !.opQueue = <<>>,
              !.loops = [l \in LoopIds |-> IdleLoop]]

\* What start() makes of a newly constructed service over the store and
\* clock of the current state.
FirstStart == startTail(startHead(Constructed(Cur)), FALSE, FALSE)

\* The instant job j's recorded timer is armed for in s, 0 without one.
TimerDue(s, j) ==
    IF s.timerHandles[j] # 0 /\ s.timers[s.timerHandles[j]] # NoTimer
    THEN s.timers[s.timerHandles[j]].dueAtMs ELSE 0

\* Whether s holds a request for job j that has not begun its dispatch.
Requested(s, j) ==
    \/ Queued(s, j)
    \/ \E l \in LoopIds : s.loops[l].pc = "kick" /\ s.loops[l].jobId = j

\* The state after the step, as far as the triggers and requests go.
After ==
    [timerHandles |-> timerHandles', timers |-> timers',
     runQueue |-> runQueue', loops |-> loops']

Recovers(j) ==
    /\ RunsTask("start") /\ ~started
    /\ store[j] # NoJob
    /\ store[j].state.runningRunId # 0

\* Whether an At job, as loaded, is past its due instant by more than
\* policy.maxLatenessMs at t.
TooLate(job, t) ==
    /\ job.schedule.kind = "at"
    /\ t - (IF job.state.nextRunAtMs > 0 THEN job.state.nextRunAtMs
            ELSE job.schedule.atMs) > job.policy.maxLatenessMs

\* Whether job j has a trigger armed for its next run, or a request, after
\* the step.
Rearmed(j) ==
    \/ TimerDue(After, j) = jobs'[j].state.nextRunAtMs /\ TimerDue(After, j) > 0
    \/ cronHandles'[j] # 0
    \/ Requested(After, j)

\* C18 as claimed: start() over a store in which a job has a runningRunId
\* leaves the job with runningRunId cleared, lastStatus = error,
\* consecutiveFailures one higher and, if it is enabled, a non-zero
\* nextRunAtMs (At, Every) with a trigger armed or a request queued.
C18_RecoveryAsClaimed ==
    [][\A j \in JobIds :
          Recovers(j) =>
              /\ jobs'[j] # NoJob
              /\ jobs'[j].state.runningRunId = 0
              /\ jobs'[j].state.lastStatus = "error"
              /\ jobs'[j].state.consecutiveFailures =
                     store[j].state.consecutiveFailures + 1
              /\ store[j].enabled =>
                    /\ store[j].schedule.kind \in {"at", "every"} =>
                           jobs'[j].state.nextRunAtMs # 0
                    /\ Rearmed(j)]_vars

\* Whether the job is a Cron job whose expression the evaluator rejects.
BadCron(job) == job.schedule.kind = "cron" /\ ~job.schedule.exprOk

\* C18 amended: as claimed, but for an enabled At job that is past its due
\* instant by more than policy.maxLatenessMs, which is left disabled with
\* lastStatus = missed and nextRunAtMs = 0, and for an enabled Cron job whose
\* expression is rejected, which is left disabled with lastStatus = error
\* and nextRunAtMs = 0.
C18_Recovery ==
    [][\A j \in JobIds :
          Recovers(j) =>
              /\ jobs'[j] # NoJob
              /\ jobs'[j].state.runningRunId = 0
              /\ jobs'[j].state.consecutiveFailures =
                     store[j].state.consecutiveFailures + 1
              /\ IF store[j].enabled /\ TooLate(normalizeLoadedJob(store[j], now), now)
                 THEN /\ ~jobs'[j].enabled
                      /\ jobs'[j].state.lastStatus = "missed"
                      /\ jobs'[j].state.nextRunAtMs = 0
                 ELSE IF store[j].enabled /\ BadCron(store[j])
                 THEN /\ ~jobs'[j].enabled
                      /\ jobs'[j].state.lastStatus = "error"
                      /\ jobs'[j].state.nextRunAtMs = 0
                 ELSE /\ jobs'[j].state.lastStatus = "error"
                      /\ jobs'[j].enabled = store[j].enabled
                      /\ store[j].enabled =>
                            /\ store[j].schedule.kind \in {"at", "every"} =>
                                   jobs'[j].state.nextRunAtMs # 0
                            /\ Rearmed(j)]_vars

\* C18 witness: a started service holds an enabled job that recovery marked
\* (lastStatus = error with a failure counted, no run under way) and that has
\* a trigger armed or a request.
C18_Witness ==
    /\ started /\ crashes > 0
    /\ \E j \in JobIds :
          /\ Has(Cur, j)
          /\ jobs[j].enabled
          /\ jobs[j].state.runningRunId = 0
          /\ jobs[j].state.lastStatus = "error"
          /\ jobs[j].state.consecutiveFailures = 1
          /\ TimerDue(Cur, j) > 0 \/ Requested(Cur, j)

\* C19: when start() recovers a job and its store write does not fail, the
\* store it leaves has no runningRunId for that job.
C19_RecoveryPersisted ==
    [][\A j \in JobIds :
          Recovers(j) /\ faults' = faults =>
              store'[j] # NoJob /\ store'[j].state.runningRunId = 0]_vars

\* C20: start() leaves an enabled At job that is past its due instant by
\* more than policy.maxLatenessMs disabled, with lastStatus = missed and
\* nextRunAtMs = 0, arms no timer for it and adds no request for it.
C20_MissedAtStart ==
    [][\A j \in JobIds :
          /\ RunsTask("start") /\ ~started
          /\ store[j] # NoJob /\ store[j].enabled
          /\ TooLate(normalizeLoadedJob(store[j], now), now)
          => /\ jobs'[j] # NoJob
             /\ ~jobs'[j].enabled
             /\ jobs'[j].state.lastStatus = "missed"
             /\ jobs'[j].state.nextRunAtMs = 0
             /\ timerHandles'[j] = 0
             /\ cronHandles'[j] = 0
             /\ \A x \in TimerIds :
                   timers'[x] # NoTimer /\ timers'[x].jobId = j => timers'[x] = timers[x]
             /\ Requested(After, j) => Requested(Cur, j)]_vars

\* C20 witness: a started service holds an At job marked missed.
C20_Witness ==
    /\ started
    /\ \E j \in JobIds :
          /\ Has(Cur, j)
          /\ jobs[j].schedule.kind = "at"
          /\ ~jobs[j].enabled
          /\ jobs[j].state.lastStatus = "missed"
          /\ jobs[j].state.nextRunAtMs = 0
          /\ timerHandles[j] = 0
          /\ ~Requested(Cur, j)


\* The post-run task of dispatch l runs in this step, whether or not it
\* passes its guards.
EndsRun(l) ==
    /\ HeadIs("final") /\ Head(opQueue).arg = l
    /\ loops[l].pc = "final" /\ loops'[l].pc # "final"
    /\ crashes' = crashes

\* Whether s holds, for job j, a request of a trigger other than runNow that
\* has not begun its dispatch.
RequestedByTrigger(s, j) ==
    \/ \E i \in 1..Len(s.runQueue) :
          s.runQueue[i].jobId = j /\ s.runQueue[i].source # "manual"
    \/ \E l \in LoopIds : /\ s.loops[l].pc = "kick" /\ s.loops[l].jobId = j
                           /\ s.loops[l].source # "manual"

\* C21: when the startup catch-up run of an At job has returned ok and its
\* post-run task has run, the job is gone or disabled, or at least no trigger
\* other than runNow has a request or a timer left for it: it is not
\* dispatched again.
C21_CatchUpOnce ==
    [][\A l \in LoopIds :
          LET j == loops[l].jobId
          IN EndsRun(l) /\ loops[l].source = "startup-catchup" /\ loops[l].ok
             /\ Has(Cur, j) /\ jobs[j].schedule.kind = "at" =>
                \/ jobs'[j] = NoJob
                \/ ~jobs'[j].enabled
                \/ ~RequestedByTrigger(After, j) /\ TimerDue(After, j) = 0]_vars

\* Whether t is a point anchor + k * every of an Every schedule.
OnCadence(schedule, t) ==
    t >= schedule.anchorMs /\ (t - schedule.anchorMs) % schedule.everyMs = 0

\* C22: when the post-run task of the startup catch-up run of an Every job
\* runs - the job enabled, the service started and not stopping, and the
\* next point of the cadence after the end of the run not yet reached - the
\* job is left with nextRunAtMs at a point anchor + k * every strictly after
\* the end of the run, a timer armed for it, and no second catch-up request.
C22_EveryCatchUpOnce ==
    [][\A l \in LoopIds :
          LET j == loops[l].jobId
          IN EndsRun(l) /\ loops[l].source = "startup-catchup"
             /\ Has(Cur, j) /\ jobs[j].schedule.kind = "every" /\ jobs[j].enabled
             /\ started /\ ~stopping /\ faults' = faults
             /\ computeEveryNextAt(jobs[j].schedule.anchorMs,
                                   jobs[j].schedule.everyMs, loops[l].endedAt) > now =>
                /\ jobs'[j] # NoJob
                /\ jobs'[j].state.nextRunAtMs > loops[l].endedAt
                /\ OnCadence(jobs[j].schedule, jobs'[j].state.nextRunAtMs)
                /\ TimerDue(After, j) = jobs'[j].state.nextRunAtMs
                /\ ~RequestedByTrigger(After, j)]_vars

\* C23: the task of remove(id) changes nothing when the job is absent; when
\* the job is present it leaves the job map and the store without it and no
\* timer, cron handle or queued request for it; no dispatch begins for an
\* absent job; and the post-run task of a run whose job is gone leaves the
\* job map as it is.
C23_RemoveIsFinal ==
    /\ [][RunsTask("remove") /\ ~Has(Cur, Head(opQueue).jobId) =>
             /\ UNCHANGED <<jobs, store, timerHandles, timers, cronHandles,
                            started, stopping>>
             /\ \A j \in JobIds : Requested(After, j) => Requested(Cur, j)]_vars
    /\ [][RunsTask("remove") /\ Has(Cur, Head(opQueue).jobId) /\ faults' = faults =>
             LET id == Head(opQueue).jobId
             IN /\ jobs'[id] = NoJob /\ store'[id] = NoJob
                /\ timerHandles'[id] = 0 /\ cronHandles'[id] = 0
                /\ \A x \in TimerIds : timers'[x].jobId # id
                /\ ~Queued(After, id) /\ id \notin queuedJobIds']_vars
    /\ [][\A l \in LoopIds :
             loops[l].pc = "kick" /\ loops'[l].pc = "exec" =>
                Has(Cur, loops[l].jobId)]_vars
    /\ [][\A l \in LoopIds :
             EndsRun(l) /\ ~Has(Cur, loops[l].jobId) => jobs' = jobs]_vars

\* Whether s holds a forced request for job j that has not begun its
\* dispatch: one the start step of executeRun takes up even for a disabled
\* job.
ForcedRequested(s, j) ==
    \/ \E i \in 1..Len(s.runQueue) : s.runQueue[i].jobId = j /\ s.runQueue[i].force
    \/ \E l \in LoopIds : /\ s.loops[l].pc = "kick" /\ s.loops[l].jobId = j
                           /\ s.loops[l].force

\* C24: the task of runNow(id) for a job that exists and is not running, on
\* a service that is not stopping, leaves a forced request for the job, so
\* that the executor is invoked for it even when the job is or becomes
\* disabled before the dispatch.
C24_RunNowIsForced ==
    [][RunsTask("runNow") /\ ~stopping =>
          LET id == Head(opQueue).jobId
          IN Has(Cur, id) /\ jobs[id].state.runningRunId = 0 =>
                ForcedRequested(After, id)]_vars

\* The step leaves the job map, the store, the triggers and the requests as
\* they are.
NothingScheduled ==
    /\ UNCHANGED <<jobs, store, timerHandles, timers, cronHandles>>
    /\ \A j \in JobIds : Requested(After, j) => Requested(Cur, j)

\* The inputs that are malformed whatever the state: a prompt that is empty
\* once trimmed, a chat id that is no safe integer, an atMs of 0 or below, an
\* everyMs below 1000, a negative anchorMs, a cron expression that is empty
\* once trimmed, an unknown kind of schedule.
Malformed(raw) ==
    \/ raw.prompt \in {"", "  "}
    \/ ~raw.chatId.safeInteger
    \/ raw.schedule.kind = "at" /\ raw.schedule.atMs <= 0
    \/ raw.schedule.kind = "every" /\ raw.schedule.everyMs < 1000
    \/ raw.schedule.kind = "every" /\ raw.schedule.anchorMs < 0
    \/ raw.schedule.kind = "cron" /\ raw.schedule.expr \in {"", "  "}
    \/ raw.schedule.kind \notin {"at", "every", "cron"}

\* C25 as claimed: the task of a create whose input is malformed, an anchorMs
\* of 0 included, changes nothing.
C25_MalformedAsClaimed ==
    [][RunsTask("createChecked") =>
          LET raw == Head(opQueue).arg
          IN \/ Malformed(raw)
             \/ raw.schedule.kind = "every" /\ raw.schedule.anchorMs <= 0
             => NothingScheduled]_vars

\* C25: the task of a create whose input is malformed - with a negative
\* anchorMs, an anchorMs of 0 standing for the instant of the call - leaves
\* the job map, the triggers, the run queue and the store unchanged; and a
\* create with everyMs = 1000, for a chat below its quota, adds the job with
\* that interval when the store write succeeds.
C25_MalformedRejected ==
    /\ [][RunsTask("createChecked") /\ Malformed(Head(opQueue).arg)
             => NothingScheduled]_vars
    /\ [][RunsTask("createChecked") /\ faults' = faults =>
             LET raw == Head(opQueue).arg
             IN ~Malformed(raw) /\ raw.schedule.kind = "every"
                /\ raw.schedule.everyMs = 1000
                /\ perChatCount(Cur, raw.chatId.value) < maxJobsPerChat =>
                   \E j \in JobIds :
                      /\ jobs[j] = NoJob /\ jobs'[j] # NoJob /\ store'[j] # NoJob
                      /\ jobs'[j].schedule.kind = "every"
                      /\ jobs'[j].schedule.everyMs = 1000]_vars

\* C25 witness: on a started service that holds a job with its timer armed,
\* the task of a create with a malformed input is about to run.
C25_Witness ==
    /\ HeadIs("createChecked") /\ Malformed(Head(opQueue).arg)
    /\ started
    /\ \E j \in JobIds : Has(Cur, j) /\ TimerDue(Cur, j) > 0

\* The bot's task at the head of the serializer was sent from a chat that
\* does not own the job it names.
ForeignTask ==
    /\ Len(opQueue) > 0
    /\ Head(opQueue).type \in {"cronOnOff", "cronDel", "cronRename", "cronRun"}
    /\ opQueue' = Tail(opQueue)
    /\ Has(Cur, Head(opQueue).jobId)
    /\ jobs[Head(opQueue).jobId].chatId # Head(opQueue).arg.chatId

\* The answer of "/cron on|off <id>" is "not found": setEnabled returned no
\* job or a job of another chat.
OnOffNotFound(chatId, id) == jobs'[id] = NoJob \/ jobs'[id].chatId # chatId

\* C26: a task the bot runs for a chat on a job of another chat is answered
\* "not found" and leaves the job record, its stored record, its timer and
\* cron handle and the requests for it as they were, whichever command or
\* directive sent it.
C26_TenantIsolation ==
    [][ForeignTask =>
          LET id == Head(opQueue).jobId
          IN /\ OnOffNotFound(Head(opQueue).arg.chatId, id)
             /\ jobs'[id] = jobs[id]
             /\ store'[id] = store[id]
             /\ TimerDue(After, id) = TimerDue(Cur, id)
             /\ cronHandles'[id] = cronHandles[id]
             /\ Requested(After, id) = Requested(Cur, id)]_vars

\* The jobs of chat c.
JobsOf(c) == { j \in JobIds : jobs[j] # NoJob /\ jobs[j].chatId = c }

\* C27: in every state status(c) counts, for every chat c, only the jobs of
\* c: its jobs, its enabled jobs, its running jobs, the queued requests
\* whose job belongs to c, and as nextRunAtMs the least non-zero nextRunAtMs
\* of c's enabled jobs.
C27_StatusPerTenant ==
    \A c \in ChatIds :
        LET st == status(Cur, c)
        IN /\ st.totalJobs = Cardinality(JobsOf(c))
           /\ st.enabledJobs = Cardinality({ j \in JobsOf(c) : jobs[j].enabled })
           /\ st.runningJobs
                = Cardinality({ j \in JobsOf(c) : jobs[j].state.runningRunId # 0 })
           /\ st.queuedJobs
                = Cardinality({ i \in 1..Len(runQueue) : runQueue[i].jobId \in JobsOf(c) })
           /\ \A j \in JobsOf(c) :
                 jobs[j].enabled /\ jobs[j].state.nextRunAtMs > 0
                    => /\ st.nextRunAtMs > 0
                       /\ st.nextRunAtMs <= jobs[j].state.nextRunAtMs
           /\ st.nextRunAtMs > 0
                 => \E j \in JobsOf(c) : /\ jobs[j].enabled
                                          /\ jobs[j].state.nextRunAtMs = st.nextRunAtMs

\* runExecutor settles for dispatch l in this step.
Settles(l) == loops[l].pc = "exec" /\ loops'[l].pc # "exec" /\ crashes' = crashes

\* C28: whenever runExecutor settles for a dispatch, whatever the executor
\* did, the dispatch goes on to its post-run step; and the post-run step of a
\* failed run that finds its job and its run id, its write succeeding,
\* leaves the job deleted or with lastStatus error, runningRunId cleared and
\* consecutiveFailures one higher, decrements the active-run counter and
\* leaves the dispatcher's loop running while requests are queued.
C28_FailureIsFailedRun ==
    /\ [][\A l \in LoopIds : Settles(l) => loops'[l].pc = "final"]_vars
    /\ [][\A l \in LoopIds :
            EndsRun(l) /\ ~loops[l].ok /\ ~finalSkips(Cur, l) /\ faults' = faults
               => LET j == loops[l].jobId
                  IN /\ \/ jobs'[j] = NoJob
                        \/ /\ jobs'[j].state.lastStatus = "error"
                           /\ jobs'[j].state.runningRunId = 0
                           /\ jobs'[j].state.consecutiveFailures
                                = jobs[j].state.consecutiveFailures + 1
                     /\ activeRuns' = Max(0, activeRuns - 1)
                     /\ loops'[l].pc \in {"idle", "kick", "resume"}
                     /\ loops'[l].pc = "idle" => Len(runQueue') = 0 \/ stopping']_vars

\* Job j is running: its record holds a runningRunId.
Running(j) == jobs[j] # NoJob /\ jobs[j].state.runningRunId # 0

\* C29: every dispatch whose executor has been called leaves runExecutor,
\* and every job that is running stops being running (or is deleted): no
\* job keeps its runningRunId forever.
C29_EveryRunEnds ==
    /\ \A l \in LoopIds : (loops[l].pc = "exec") ~> (loops[l].pc # "exec")
    /\ \A j \in JobIds : Running(j) ~> ~Running(j)

\* With job records js, dispatches ls and active-run counter n: every
\* runningRunId belongs to a dispatch between its start step and its
\* post-run step, and the counter counts those dispatches.
RunsOwned(js, ls, n) ==
    /\ \A j \in JobIds :
          js[j] # NoJob /\ js[j].state.runningRunId # 0
             => \E l \in LoopIds : /\ ls[l].pc \in {"exec", "final"}
                                   /\ ls[l].jobId = j
                                   /\ ls[l].runId = js[j].state.runningRunId
    /\ n = Cardinality({ l \in LoopIds : ls[l].pc \in {"exec", "final"} })

\* C30: a serialized step whose store write fails, taken from a state in
\* which every runningRunId is owned by a dispatch and the active-run
\* counter counts the dispatches in flight, leaves such a state: no job
\* holds a runningRunId that no dispatch owns, and the counter goes back to
\* 0 with the dispatches.
C30_WriteFailureTolerated ==
    [][faults' > faults /\ RunsOwned(jobs, loops, activeRuns)
          => RunsOwned(jobs', loops', activeRuns')]_vars

\* Job j's record after the step is that of a Cron job with a rejected
\* expression, disabled by the catch block of scheduleJobUnsafe.
DisabledAsBadCron(j) ==
    /\ jobs'[j] # NoJob
    /\ ~jobs'[j].enabled
    /\ jobs'[j].state.lastStatus = "error"
    /\ jobs'[j].state.nextRunAtMs = 0
    /\ cronHandles'[j] = 0

\* C31: a Cron job whose expression is rejected never has a cron handle or
\* a timer, is disabled with nextRunAtMs = 0 whenever the service is started
\* and not stopping, and never has a request, a dispatch or a trigger
\* callback that is not a manual run; and the create, the setEnabled(true)
\* and the start that try to arm it leave it disabled with lastStatus =
\* error, nextRunAtMs = 0 and no cron handle.
C31_BadCronDisabled ==
    /\ [](\A j \in JobIds :
            Has(Cur, j) /\ BadCron(jobs[j])
               => /\ cronHandles[j] = 0
                  /\ timerHandles[j] = 0
                  /\ \A x \in TimerIds : timers[x].jobId # j
                  /\ started /\ ~stopping
                        => ~jobs[j].enabled /\ jobs[j].state.nextRunAtMs = 0
                  /\ \A i \in 1..Len(runQueue) :
                        runQueue[i].jobId = j => runQueue[i].source = "manual"
                  /\ \A l \in LoopIds :
                        loops[l].jobId = j => loops[l].source = "manual"
                  /\ \A i \in 1..Len(opQueue) :
                        opQueue[i].jobId = j
                           => opQueue[i].type \notin {"onTimer", "onCronTick"})
    /\ [][\A j \in JobIds :
            /\ RunsTask("create") /\ jobs[j] = NoJob /\ jobs'[j] # NoJob
               /\ BadCron(jobs'[j]) /\ started /\ ~stopping
                  => DisabledAsBadCron(j)
            /\ RunsTask("setEnabled") /\ Head(opQueue).jobId = j
               /\ Head(opQueue).arg = TRUE /\ Has(Cur, j) /\ BadCron(jobs[j])
               /\ started /\ ~stopping
                  => DisabledAsBadCron(j)
            /\ RunsTask("start") /\ ~started /\ store[j] # NoJob
               /\ BadCron(store[j]) /\ store[j].enabled
                  => DisabledAsBadCron(j)]_vars

\* A Cron job with a rejected expression stands disabled with lastStatus =
\* error on a started service after a cron period has gone by.
C31_Witness ==
    \E j \in JobIds :
        /\ Has(Cur, j) /\ BadCron(jobs[j])
        /\ started /\ ~stopping
        /\ ~jobs[j].enabled /\ jobs[j].state.lastStatus = "error"
        /\ now >= jobs[j].updatedAtMs + CronPeriodMs

\* The timer callback at the head of the serializer is stale for job j: its
\* own timer has fired, and the job was cancelled since (it is gone or
\* disabled) or holds a newer timer that is still pending.
StaleCallback(j) ==
    /\ RunsTask("onTimer")
    /\ Head(opQueue).jobId = j
    /\ \/ ~Has(Cur, j)
       \/ ~jobs[j].enabled
       \/ TimerDue(Cur, j) # 0

\* C32: a stale timer callback that enters the serializer enqueues no run
\* for its job and leaves the job's timer handle and the timer it stands for
\* as they are.
C32_StaleCallbackHarmless ==
    [][\A j \in JobIds :
          StaleCallback(j)
             => /\ Requested(After, j) => Requested(Cur, j)
                /\ TimerDue(After, j) = TimerDue(Cur, j)]_vars

\* The timer callback of job j for target dueAtMs enters the serializer and
\* passes its guards: the service is not stopping and the job is there and
\* enabled.
TimerCallback(j, dueAtMs) ==
    /\ RunsTask("onTimer")
    /\ Head(opQueue).jobId = j
    /\ Head(opQueue).arg = dueAtMs
    /\ ~stopping /\ Has(Cur, j) /\ jobs[j].enabled

\* s holds a request of source `source` for job j that has not begun its
\* dispatch.
RequestedFrom(s, j, source) ==
    \/ \E i \in 1..Len(s.runQueue) :
          s.runQueue[i].jobId = j /\ s.runQueue[i].source = source
    \/ \E l \in LoopIds : /\ s.loops[l].pc = "kick" /\ s.loops[l].jobId = j
                          /\ s.loops[l].source = source

\* The targets timers are armed for.
Targets ==
    { timers[t].dueAtMs : t \in { x \in TimerIds : timers[x] # NoTimer } }
    \cup { opQueue[i].arg : i \in { k \in 1..Len(opQueue) : opQueue[k].type = "onTimer" } }

\* C33: a timer callback that enters the serializer more than 1 s before
\* its target leaves a timer armed for the same target, one slice ahead at
\* most, and no new request; one that enters later leaves a request of
\* source timer for its job, unless the job is queued or running already;
\* and a request of source timer appears only in the task of a callback
\* that is at most 1 s before its target or in a task that found the job
\* due.
C33_EarlyFireRearms ==
    /\ [][\A j \in JobIds : \A dueAtMs \in Targets :
            TimerCallback(j, dueAtMs)
               => IF dueAtMs - now > EarlyFireMs
                  THEN /\ TimerDue(After, j) = dueAtMs
                       /\ timers'[timerHandles'[j]].fireAt
                            = now + Min(dueAtMs - now, MAX_TIMER_SLICE_MS)
                       /\ Requested(After, j) => Requested(Cur, j)
                  ELSE \/ RequestedFrom(After, j, "timer")
                       \/ Requested(Cur, j)
                       \/ jobs[j].state.runningRunId # 0]_vars
    /\ [][\A j \in JobIds :
            RequestedFrom(After, j, "timer") /\ ~RequestedFrom(Cur, j, "timer")
               => IF HeadIs("onTimer")
                  THEN Head(opQueue).jobId = j /\ Head(opQueue).arg - now <= EarlyFireMs
                  ELSE jobs'[j] # NoJob /\ jobs'[j].state.nextRunAtMs <= now]_vars

\* The dispatcher holds a request of source timer for a job whose target is
\* more than two timer slices after its creation, the target at most 1 s
\* ahead.
C33_Witness ==
    \E j \in JobIds :
        /\ Has(Cur, j)
        /\ jobs[j].schedule.kind = "at"
        /\ jobs[j].schedule.atMs = FarMs
        /\ RequestedFrom(Cur, j, "timer")
        /\ jobs[j].schedule.atMs - now <= EarlyFireMs

\* C34: the post-run task of a run of an Every job that finds its job and
\* its run id leaves the job's enabled flag as it was, consecutiveFailures
\* at 0 after a success and one higher after a failure, and nextRunAtMs at
\* the first point anchor + k * every strictly after the end of the run.
C34_EveryAfterRun ==
    [][\A l \in LoopIds :
          LET j == loops[l].jobId
          IN Finalizes(l) /\ jobs[j].schedule.kind = "every"
             => /\ jobs'[j] # NoJob
                /\ jobs'[j].enabled = jobs[j].enabled
                /\ jobs'[j].state.consecutiveFailures =
                      IF loops[l].ok THEN 0
                      ELSE jobs[j].state.consecutiveFailures + 1
                /\ jobs'[j].state.nextRunAtMs > loops[l].endedAt
                /\ OnCadence(jobs[j].schedule, jobs'[j].state.nextRunAtMs)
                /\ \/ jobs'[j].state.nextRunAtMs = jobs[j].schedule.anchorMs
                   \/ jobs'[j].state.nextRunAtMs - jobs[j].schedule.everyMs
                        <= loops[l].endedAt]_vars

\* A failed run of an enabled Every job that ended on a point of the
\* cadence is about to be finalized, a failure already counted.
C34_Witness ==
    \E l \in LoopIds :
        LET j == loops[l].jobId
        IN /\ loops[l].pc = "final" /\ HeadIs("final") /\ Head(opQueue).arg = l
           /\ ~finalSkips(Cur, l)
           /\ jobs[j].schedule.kind = "every" /\ jobs[j].enabled
           /\ ~loops[l].ok
           /\ jobs[j].state.consecutiveFailures > 0
           /\ OnCadence(jobs[j].schedule, loops[l].endedAt)

\* C35: the task of create leaves a new Every job with nextRunAtMs at the
\* first point anchor + k * every, k >= 0, that is not before the instant
\* of the call: the instant itself when it is such a point.
C35_EveryInitialNext ==
    [][\A j \in JobIds :
          /\ RunsTask("create") /\ jobs[j] = NoJob /\ jobs'[j] # NoJob
          /\ jobs'[j].schedule.kind = "every"
          => /\ jobs'[j].state.nextRunAtMs >= now
             /\ OnCadence(jobs'[j].schedule, jobs'[j].state.nextRunAtMs)
             /\ \/ jobs'[j].state.nextRunAtMs = jobs'[j].schedule.anchorMs
                \/ jobs'[j].state.nextRunAtMs - jobs'[j].schedule.everyMs < now]_vars

\* The dispatches in flight: executeRun has passed its start step and has
\* not yet run its post-run step.
DispatchesInFlight == { l \in LoopIds : loops[l].pc \in {"exec", "final"} }

\* The requests that wait in the run queue, less those of a job that the
\* step deletes.
StillQueued == SelectSeq(runQueue, LAMBDA r : jobs'[r.jobId] # NoJob)

\* C36: in every state at most one dispatch is in flight, the active-run
\* counter is 0 or 1 and at most one job holds a runningRunId; and a
\* dispatch that begins while requests wait takes the one that has waited
\* longest.
C36_GloballySerial ==
    /\ [](/\ Cardinality(DispatchesInFlight) <= 1
          /\ activeRuns \in {0, 1}
          /\ Cardinality({ j \in JobIds : Running(j) }) <= 1)
    /\ [][\A l \in LoopIds :
            loops'[l].pc = "kick" /\ loops[l].pc # "kick" /\ crashes' = crashes
               /\ Len(StillQueued) > 0
               => /\ loops'[l].jobId = Head(StillQueued).jobId
                  /\ loops'[l].source = Head(StillQueued).source
                  /\ loops'[l].force = Head(StillQueued).force]_vars


Writing == { i \in 1..Len(opQueue) : opQueue[i].type = "writing" }

\* C38: store snapshots are written one at a time, in the order of the
\* persist calls, each holding the job map as it was at its persist call;
\* once no write is outstanding the file holds the job map left by the
\* last mutation; a failed write leaves the writes behind it to proceed.
C38_WriteChain ==
    /\ [](Cardinality(Writing) <= 1)
    /\ [](\A i \in Writing : opQueue[i].arg.data = opQueue[i].arg.called)
    /\ [][store' # store
             => /\ Len(opQueue) > 0
                /\ Head(opQueue).type = "writing"
                /\ store' = Head(opQueue).arg.called]_vars
    /\ [][faults' > faults => Len(opQueue) > 0 /\ opQueue' = Tail(opQueue)]_vars
    /\ [](opQueue = <<>> => store = jobs)

\* The step leaves the job of dispatch l finalized and not re-armed: the job
\* is deleted, or its runningRunId is cleared and the outcome and end time of
\* the run are recorded; the store holds the result unless the write fails;
\* the job has no timer handle, no cron handle and no new timer.
FinalizedUnarmed(l) ==
    LET j == loops[l].jobId
    IN /\ \/ jobs'[j] = NoJob
          \/ /\ jobs'[j].state.runningRunId = 0
             /\ jobs'[j].state.lastStatus = IF loops[l].ok THEN "ok" ELSE "error"
             /\ jobs'[j].updatedAtMs = loops[l].endedAt
       /\ faults' = faults => store' = jobs'
       /\ timerHandles'[j] = 0
       /\ cronHandles'[j] = 0
       /\ \A t \in TimerIds :
             timers'[t] # NoTimer /\ timers'[t].jobId = j => timers'[t] = timers[t]

\* C39: the post-run step of a dispatch that was in flight when stop() ran,
\* its job still present, finalizes the run (runningRunId cleared, outcome
\* and end time recorded, result written) and arms no timer and no cron
\* handle for the job.
C39_InFlightAtStopFinalized ==
    [][\A l \in LoopIds :
          EndsRun(l) /\ stopping /\ Has(Cur, loops[l].jobId) => FinalizedUnarmed(l)]_vars

\* Job j is enabled and due on a running service (an At or Every job, whose
\* trigger is a timer).
Due(j) ==
    /\ started /\ ~stopping
    /\ Has(Cur, j) /\ jobs[j].enabled
    /\ jobs[j].schedule.kind # "cron"
    /\ jobs[j].state.nextRunAtMs > 0 /\ jobs[j].state.nextRunAtMs <= now

\* C40: as long as no store write has failed, every request in the run
\* queue of a service that is not stopping is eventually taken from the
\* queue (or the service stops), and every enabled job that is due on a
\* running service is eventually dispatched (or deleted, disabled, or the
\* service stops), whatever stop() and start() did before.
C40_QueueDrains ==
    /\ \A j \in JobIds :
          (j \in queuedJobIds /\ ~stopping)
             ~> (j \notin queuedJobIds \/ stopping \/ faults > 0)
    /\ \A j \in JobIds :
          Due(j) ~> (Running(j) \/ ~Has(Cur, j) \/ ~jobs[j].enabled
                     \/ stopping \/ faults > 0)

====
